---- MODULE Spec2Model ----
(***************************************************************************)
(* A model of the polychat-ipc plugin host runtime: the child process      *)
(* wrapper (Process), its reader task (fetch_message_loop), the shared     *)
(* inbound queue, the endpoint's line framing, the wrapper's teardown and  *)
(* the plugin manager's enumeration pass (load_processes).                 *)
(***************************************************************************)
EXTENDS Integers, Sequences, FiniteSets, TLC

\* ------------------------------------------------------------------ bounds

\* Envelopes the plugins write at most, all together.
MaxMsgs == 3
\* Capacity of the shared queue in the model (mpsc::channel(100) in the code).
QueueCap == 1
\* Instructions the host sends to each plugin at most.
MaxHostSends == 1
\* Directory entries an enumeration pass walks at most.
MaxEntries == 3
\* Envelopes sent through the codec at most.
MaxTrips == 1

\* Envelopes sent back to back in one direction at most.
MaxFrames == 2

\* The child wrappers of the model, in the order a manager stores them.
PluginOrder == <<"A", "B">>
Plugins == {PluginOrder[i] : i \in 1..Len(PluginOrder)}

\* Endpoint names (generate_random_ipc_id) and the path of the executable.
EndpointNames == {"n1", "n2"}

\* The endpoint names of the wrappers that are alive from the start: each
\* was minted by generate_random_ipc_id and bound while the other was.
MintedName(p) == IF p = PluginOrder[1] THEN "n1" ELSE "n2"

\* ------------------------------------------------------------- data model

\* CoreInstructionType: the kinds a core-bound envelope may carry.
CoreKinds == {"Init", "KeepaliveResponse", "AuthAccountResponse"}

\* PluginInstructionType: the kinds a plugin-bound envelope may carry.
PluginKinds == {"Keepalive", "AuthAccount"}

\* The payload schemas of the dispatchers.
Schemas ==
    {"InitDataInstruction", "KeepaliveInstruction", "AuthAccountResponse",
     "AuthAccountInstruction"}

\* A payload: the schemas its JSON value parses into (unknown fields are
\* ignored, so a value may parse into several, and {} into none) and whether
\* its text, kept verbatim as a raw value, holds a line break.
Payloads ==
    {[fits |-> f, breaks |-> b] :
        f \in {{}, Schemas} \cup {{x} : x \in Schemas}, b \in BOOLEAN}

\* The "instruction_type" strings a plugin writes in the model: a valid kind
\* and one that is no variant of CoreInstructionType.
InputKinds == {"KeepaliveResponse", "Silliness"}

\* NameTypeSupport of the interprocess crate.
NameTypeSupport == {"OnlyPaths", "Both", "OnlyNamespaced"}

\* An envelope as the plugin serialises it: who wrote it, its sequence
\* number in that plugin's output and its instruction_type.
Envelope(p, n, k) == [src |-> p, id |-> n, kind |-> k]

\* The bytes of one serialised envelope on the stream: the whole line
\* (json + "\n") in one piece, or split by the transport into a first piece
\* without the newline and a last piece that ends with the newline.
WholeLine(m) == [msg |-> m, part |-> "whole"]
HeadPiece(m) == [msg |-> m, part |-> "head"]
TailPiece(m) == [msg |-> m, part |-> "tail"]

\* A line whose payload text holds a line break of its own reaches the
\* stream as the text up to that break and the text after it, which ends
\* with the newline of the frame.
UpToBreak(m) == [msg |-> m, part |-> "upto_break"]
AfterBreak(m) == [msg |-> m, part |-> "after_break"]

\* A piece of the stream that holds a '\n'.
HasNewline(piece) == piece.part \in {"whole", "tail", "upto_break", "after_break"}

\* What a peer that closed the connection leaves on the stream: the text of
\* an envelope cut short, or all of it but the newline; and the end of the
\* stream, which carries no envelope.
CutPiece(m) == [msg |-> m, part |-> "cut"]
JsonPiece(m) == [msg |-> m, part |-> "json"]
NoMsg ==
    [src |-> "none", id |-> 0, kind |-> "none",
     payload |-> [fits |-> {}, breaks |-> FALSE]]
Eof == [msg |-> NoMsg, part |-> "eof"]

\* read_line stops after a '\n' and at the end of the stream.
EndsLine(piece) == HasNewline(piece) \/ piece.part = "eof"

\* read_line: whether the bytes read so far let it return.
HasLine(data) == \E i \in 1..Len(data) : EndsLine(data[i])

\* read_line: the bytes up to and including the first '\n', or up to the
\* end of the stream when no '\n' comes before it.
FirstLine(data) ==
    LET i == CHOOSE j \in 1..Len(data) :
                 /\ EndsLine(data[j])
                 /\ \A k \in 1..(j - 1) : ~EndsLine(data[k])
    IN  IF data[i].part = "eof" THEN SubSeq(data, 1, i - 1) ELSE SubSeq(data, 1, i)

\* What the text that read_line returned looks like: it ends with '\n', or
\* the stream ended on nothing, inside an envelope's text or right after it.
LineEnd(line) ==
    IF line = <<>> THEN "eof_empty"
    ELSE IF HasNewline(line[Len(line)]) THEN "newline"
    ELSE IF line[Len(line)].part = "json" THEN "eof_json"
    ELSE "eof_cut"

\* Mutant of convert_str_to_struct: a text cut short decodes as well.
convert_str_to_struct_AcceptsCut(line, kinds) ==
    IF line = <<>>
    THEN [ok |-> FALSE, msg |-> NoMsg]
    ELSE IF line[1].msg.kind \in kinds
    THEN [ok |-> TRUE, msg |-> line[1].msg]
    ELSE [ok |-> FALSE, msg |-> line[1].msg]

\* convert_str_to_struct: a line decodes when it is exactly the bytes of
\* one envelope and its instruction_type is a variant of the enum of the
\* target type; the payload is kept as the raw text it came in.
convert_str_to_struct(line, kinds) ==
    LET intact == \/ Len(line) = 1 /\ line[1].part \in {"whole", "json"}
                  \/ /\ Len(line) = 2
                     /\ line[1].part = "head"
                     /\ line[2].part = "tail"
                     /\ line[1].msg = line[2].msg
    IN  IF line = <<>>
        THEN [ok |-> FALSE, msg |-> NoMsg]
        ELSE IF intact /\ line[1].msg.kind \in kinds
        THEN [ok |-> TRUE, msg |-> line[1].msg]
        ELSE [ok |-> FALSE, msg |-> line[1].msg]

\* serde_json::from_str::<DeserializableCoreInstr>.
ParseLine(line) == convert_str_to_struct(line, CoreKinds)

\* ------------------------------------------------------------------ state

VARIABLES
    \* the plugin's side of each endpoint
    conn,        \* "none" | "pending" (connected, not accepted) | "accepted"
    wire,        \* bytes written by the plugin and not yet read by the host
    midWrite,    \* id of the envelope whose last piece is still unwritten, or 0
    sent,        \* the envelopes the plugin has written, in order
    \* Process and its reader task
    lock,        \* the Mutex around the endpoint: "free" | "reader" | "sender"
    rpc,         \* position of fetch_message_loop
    task,        \* core_read_thread: "none" | "polling" | "parked" | "dead"
    abortReq,    \* JoinHandle::abort has been called
    rbuf,        \* bytes held by the BufReader and String of a pending read_line
    msg_buffer,  \* the reader task's staging Vec
    lastSend,    \* outcome of the reader task's latest queue send
    hostSent,    \* instructions written to the plugin by send_instruction
    \* the shared queue
    queue,       \* envelopes in the mpsc channel
    rxOpen,      \* the Receiver is alive
    consumed,    \* envelopes the consumer has taken, in order
    \* teardown
    dpc,         \* position of the wrapper: "absent" | "alive" | drop steps
    child,       \* the OS child: "none" | "running" | "exited" | "reaped"
    dlog,        \* the calls Process::drop has made, in order
    arcs,        \* holders of the Arc<Mutex<IPCServer>>
    sockFile,    \* the endpoint's socket file exists
    nameSupport, \* NameTypeSupport::query() of the platform
    socket_name, \* the endpoint name minted for each wrapper's endpoint
    \* ProcessManager::load_processes
    lpc,         \* position of the manager: "unbuilt" | "idle" | steps of load_processes
    dir,         \* the manager's dir (<<>> is None) and what the filesystem holds there
    ui,          \* an observer was passed
    walk,        \* what the directory walk yields, in order
    cursor,      \* next entry of the walk
    events,      \* observer callbacks made so far
    loadResult,  \* what load_processes returns
    loaded,      \* loaded_processes
    \* a second client of the endpoint
    other,       \* its connection: "none" | "pending" | "accepted"
    \* one plugin executable and the endpoint bound for it
    ename,       \* the name the host bound an endpoint under, or "none"
    argv,        \* env::args() of the plugin process; <<>> while not started
    byHost,      \* whether Process::new started it
    epc,         \* position of run_plugin
    target,      \* socket_id, the name run_plugin connects to, or "none"
    attached,    \* the resolved name of the endpoint it is connected to
    outbox,      \* kinds of the envelopes it has sent, in order
    \* Core::run and ProcessManager::prepare_dir
    runpc,       \* position of Core::run: "off" | "prepare" | "load" | "loading" | "returned"
    runResult,   \* what Core::run returns
    prepResult,  \* what the last prepare_dir returned
    created,     \* create_dir_all has been called
    \* the framing codec and the dispatchers
    pipe,        \* the bytes in flight between two peers and their direction
    sentLog,     \* the envelopes handed to a send, in order
    recvLog,     \* what each recv returned, in order
    inbox,       \* a decoded envelope that awaits its dispatcher
    dispatches   \* what each dispatcher call did, in order

plugVars == <<conn, wire, midWrite, sent>>
readerVars == <<lock, rpc, task, abortReq, rbuf, msg_buffer, lastSend, hostSent>>
queueVars == <<queue, rxOpen, consumed>>
dropVars == <<dpc, child, dlog, arcs, sockFile, nameSupport, socket_name>>
loadVars == <<lpc, dir, ui, walk, cursor, events, loadResult, loaded>>
entryVars == <<ename, argv, byHost, epc, target, attached, outbox>>
peerVars == <<other, entryVars>>
runVars == <<runpc, runResult, prepResult, created>>
apiVars == <<pipe, sentLog, recvLog, inbox, dispatches>>
vars == <<plugVars, readerVars, queueVars, dropVars, loadVars, peerVars, runVars, apiVars>>

\* get_socket_name / LocalSocketListener::bind: a socket file exists once the
\* endpoint is bound on a platform that uses filesystem paths.
UsesPaths(support) == support \in {"OnlyPaths", "Both"}

\* The part of the state that belongs to the wrappers in `live` right after
\* Process::new: child spawned, endpoint bound and shared by the wrapper and
\* the freshly spawned reader task, nothing received yet.
WrappersInit(live, support) ==
    /\ conn = [p \in Plugins |-> "none"]
    /\ wire = [p \in Plugins |-> <<>>]
    /\ midWrite = [p \in Plugins |-> 0]
    /\ sent = [p \in Plugins |-> <<>>]
    /\ lock = [p \in Plugins |-> "free"]
    /\ rpc = [p \in Plugins |-> "lock"]
    /\ task = [p \in Plugins |-> IF p \in live THEN "polling" ELSE "none"]
    /\ abortReq = [p \in Plugins |-> FALSE]
    /\ rbuf = [p \in Plugins |-> <<>>]
    /\ msg_buffer = [p \in Plugins |-> <<>>]
    /\ lastSend = [p \in Plugins |-> "none"]
    /\ hostSent = [p \in Plugins |-> 0]
    /\ queue = <<>>
    /\ rxOpen = TRUE
    /\ consumed = <<>>
    /\ dpc = [p \in Plugins |-> IF p \in live THEN "alive" ELSE "absent"]
    /\ child = [p \in Plugins |-> IF p \in live THEN "running" ELSE "none"]
    /\ dlog = [p \in Plugins |-> <<>>]
    /\ arcs = [p \in Plugins |-> IF p \in live THEN {"wrapper", "task"} ELSE {}]
    /\ sockFile = [p \in Plugins |-> p \in live /\ UsesPaths(support)]
    /\ nameSupport = support
    /\ socket_name = [p \in Plugins |-> IF p \in live THEN MintedName(p) ELSE "none"]
    /\ other = [p \in Plugins |-> "none"]
    /\ ename = "none"
    /\ argv = <<>>
    /\ byHost = FALSE
    /\ epc = "off"
    /\ target = "none"
    /\ attached = "none"
    /\ outbox = <<>>

\* A path as check_directory sees it: absolute or not, and what the
\* filesystem holds there.
Path(abs, exists, isdir) == [abs |-> abs, exists |-> exists, isdir |-> isdir]

\* A manager built by from_dir_path on a valid directory; neither
\* load_processes nor Core::run has been called.
LoadIdle ==
    /\ lpc = "idle"
    /\ dir = <<Path(TRUE, TRUE, TRUE)>>
    /\ ui = FALSE
    /\ walk = <<>>
    /\ cursor = 1
    /\ events = <<>>
    /\ loadResult = "none"
    /\ loaded = <<>>
    /\ runpc = "off"
    /\ runResult = "none"
    /\ prepResult = "none"
    /\ created = FALSE

\* Nothing has been sent, received or dispatched.
ApiIdle ==
    /\ pipe = [to |-> "none", data |-> <<>>]
    /\ sentLog = <<>>
    /\ recvLog = <<>>
    /\ inbox = <<>>
    /\ dispatches = <<>>

\* One wrapper built with Process::new, its queue read by a consumer.
Init == WrappersInit({"A"}, "Both") /\ LoadIdle /\ ApiIdle

\* Two wrappers built with Process::new on one shared queue.
FanInInit == WrappersInit(Plugins, "Both") /\ LoadIdle /\ ApiIdle

\* --------------------------------------------------------------- the plugin

\* Envelopes written so far by all plugins.
TotalSent == Cardinality(UNION {{p} \X (1..Len(sent[p])) : p \in Plugins})

\* IPCClient::new: connect to the bound endpoint.
PluginConnect(p) ==
    /\ arcs[p] # {}
    /\ conn[p] = "none"
    /\ conn' = [conn EXCEPT ![p] = "pending"]
    /\ UNCHANGED <<wire, midWrite, sent, readerVars, queueVars, dropVars, loadVars, peerVars, runVars, apiVars>>

\* IPCClient::new by a second client, after the plugin's own: it connects to
\* the same bound name and waits on the listener.
SecondConnect(p) ==
    /\ arcs[p] # {}
    /\ conn[p] # "none"
    /\ other[p] = "none"
    /\ other' = [other EXCEPT ![p] = "pending"]
    /\ UNCHANGED <<entryVars, conn, wire, midWrite, sent, readerVars, queueVars, dropVars, loadVars, runVars, apiVars>>

\* IPCClient::send_core_instruction -> send_str_over_ipc: write_all of
\* "<json>\n", arriving at the host in one piece.
PluginSend(p) ==
    /\ arcs[p] # {}
    /\ conn[p] # "none"
    /\ midWrite[p] = 0
    /\ TotalSent < MaxMsgs
    /\ \E k \in InputKinds :
          LET m == Envelope(p, Len(sent[p]) + 1, k)
          IN  /\ sent' = [sent EXCEPT ![p] = Append(@, m)]
              /\ wire' = [wire EXCEPT ![p] = Append(@, WholeLine(m))]
    /\ UNCHANGED <<conn, midWrite, readerVars, queueVars, dropVars, loadVars, peerVars, runVars, apiVars>>

\* The same write_all, of which only a first piece has reached the host.
PluginSendHead(p) ==
    /\ arcs[p] # {}
    /\ conn[p] # "none"
    /\ midWrite[p] = 0
    /\ TotalSent < MaxMsgs
    /\ \E k \in InputKinds :
          LET m == Envelope(p, Len(sent[p]) + 1, k)
          IN  /\ sent' = [sent EXCEPT ![p] = Append(@, m)]
              /\ wire' = [wire EXCEPT ![p] = Append(@, HeadPiece(m))]
              /\ midWrite' = [midWrite EXCEPT ![p] = m.id]
    /\ UNCHANGED <<conn, readerVars, queueVars, dropVars, loadVars, peerVars, runVars, apiVars>>

\* The rest of that write_all, ending with the newline.
PluginSendTail(p) ==
    /\ arcs[p] # {}
    /\ midWrite[p] # 0
    /\ wire' = [wire EXCEPT ![p] = Append(@, TailPiece(sent[p][midWrite[p]]))]
    /\ midWrite' = [midWrite EXCEPT ![p] = 0]
    /\ UNCHANGED <<conn, sent, readerVars, queueVars, dropVars, loadVars, peerVars, runVars, apiVars>>

\* ---------------------------------------------------------- the reader task

\* A task is polled only while it is running, or parked and not yet aborted:
\* JoinHandle::abort of a parked task cancels it without another poll, while
\* a task that is being polled runs on to its next suspension point.
CanRun(p) == task[p] = "polling" \/ (task[p] = "parked" /\ ~abortReq[p])

\* fetch_message_loop, timeout(16ms, socket.lock()): the lock is free.
LockAcquire(p) ==
    /\ rpc[p] = "lock"
    /\ CanRun(p)
    /\ lock[p] = "free"
    /\ lock' = [lock EXCEPT ![p] = "reader"]
    /\ rpc' = [rpc EXCEPT ![p] = "recv"]
    /\ task' = [task EXCEPT ![p] = "polling"]
    /\ UNCHANGED <<abortReq, rbuf, msg_buffer, lastSend, hostSent>>
    /\ UNCHANGED <<plugVars, queueVars, dropVars, loadVars, peerVars, runVars, apiVars>>

\* The lock is held by send_instruction: the task suspends on it.
LockPark(p) ==
    /\ rpc[p] = "lock"
    /\ task[p] = "polling"
    /\ lock[p] # "free"
    /\ task' = [task EXCEPT ![p] = "parked"]
    /\ UNCHANGED <<lock, rpc, abortReq, rbuf, msg_buffer, lastSend, hostSent>>
    /\ UNCHANGED <<plugVars, queueVars, dropVars, loadVars, peerVars, runVars, apiVars>>

\* Mutant of LockTimeout: after the 16 ms the task goes on to its recv
\* without the lock.
LockTimeout_RecvAnyway(p) ==
    /\ rpc[p] = "lock"
    /\ task[p] = "parked"
    /\ ~abortReq[p]
    /\ lock[p] # "free"
    /\ rpc' = [rpc EXCEPT ![p] = "recv"]
    /\ task' = [task EXCEPT ![p] = "polling"]
    /\ UNCHANGED <<lock, abortReq, rbuf, msg_buffer, lastSend, hostSent>>
    /\ UNCHANGED <<plugVars, queueVars, dropVars, loadVars, peerVars, runVars, apiVars>>

\* The 16 ms on the lock elapse (the Err(_) => {} arm).
LockTimeout(p) ==
    /\ rpc[p] = "lock"
    /\ task[p] = "parked"
    /\ ~abortReq[p]
    /\ lock[p] # "free"
    /\ rpc' = [rpc EXCEPT ![p] = "check"]
    /\ task' = [task EXCEPT ![p] = "polling"]
    /\ UNCHANGED <<lock, abortReq, rbuf, msg_buffer, lastSend, hostSent>>
    /\ UNCHANGED <<plugVars, queueVars, dropVars, loadVars, peerVars, runVars, apiVars>>

\* receive_line: one poll of read_line on a BufReader made for this call.
\* The poll takes every byte the stream holds; the line, when complete, is
\* returned and whatever followed it is dropped with the BufReader.
ReceiveLine(held, avail) ==
    LET data == held \o avail
    IN  IF HasLine(data)
        THEN [ready |-> TRUE, line |-> FirstLine(data), held |-> <<>>]
        ELSE [ready |-> FALSE, line |-> <<>>, held |-> data]

\* Mutant of Stage: the decoded envelope is put at the front of the buffer.
Stage_Front(buf, line) ==
    IF ParseLine(line).ok THEN <<ParseLine(line).msg>> \o buf ELSE buf

\* The Ok(d) => msg_buffer.push(d) / Err(e) => warn arms.
Stage(buf, line) ==
    IF ParseLine(line).ok THEN Append(buf, ParseLine(line).msg) ELSE buf

\* IPCServer: the first send or recv accepts the one client connection and
\* caches its halves; later calls reuse them.
AcceptOnFirstUse(c) == IF c = "pending" THEN "accepted" ELSE c

\* Mutant of AcceptLater: every call on the endpoint accepts again, so a
\* client waiting on the listener gets a stream once the first one has its own.
AcceptLater_PerCall(c, o) ==
    IF c = "accepted" /\ o \in {"pending", "passed_over"}
    THEN "accepted"
    ELSE IF o = "pending" THEN "passed_over" ELSE o

\* IPCServer: a call on the endpoint accepts only while no halves are cached,
\* and then the first client in the backlog; a second client that waits on
\* the listener is passed over by every call.
AcceptLater(c, o) == IF o = "pending" THEN "passed_over" ELSE o

\* Mutant of RecvPoll: the guard of the mutex lives to the end of the
\* iteration, over the queue send and the sleep.
RecvPoll_HoldLock(p) ==
    /\ rpc[p] = "recv"
    /\ CanRun(p)
    /\ \/ task[p] = "polling"
       \/ conn[p] = "pending"
       \/ conn[p] = "accepted" /\ wire[p] # <<>>
    /\ LET accepted == AcceptOnFirstUse(conn[p]) = "accepted"
           r == ReceiveLine(rbuf[p], IF accepted THEN wire[p] ELSE <<>>)
       IN  /\ conn' = [conn EXCEPT ![p] = AcceptOnFirstUse(@)]
           /\ wire' = [wire EXCEPT ![p] = IF accepted THEN <<>> ELSE @]
           /\ rbuf' = [rbuf EXCEPT ![p] = r.held]
           /\ IF r.ready
              THEN /\ msg_buffer' = [msg_buffer EXCEPT ![p] = Stage(@, r.line)]
                   /\ rpc' = [rpc EXCEPT ![p] = "check"]
                   /\ UNCHANGED lock
                   /\ task' = [task EXCEPT ![p] = "polling"]
              ELSE /\ task' = [task EXCEPT ![p] = "parked"]
                   /\ UNCHANGED <<msg_buffer, lock, rpc>>
    /\ other' = [other EXCEPT ![p] = AcceptLater(conn[p], @)]
    /\ UNCHANGED entryVars
    /\ UNCHANGED <<abortReq, lastSend, hostSent, midWrite, sent>>
    /\ UNCHANGED <<queueVars, dropVars, loadVars, runVars, apiVars>>

\* One poll of timeout(16ms, lock.get_instruction()): accept the pending
\* connection on first use, then read a line. A complete line is decoded and
\* staged; otherwise the task suspends with the lock held.
RecvPoll(p) ==
    /\ rpc[p] = "recv"
    /\ CanRun(p)
    /\ \/ task[p] = "polling"
       \/ conn[p] = "pending"
       \/ conn[p] = "accepted" /\ wire[p] # <<>>
    /\ LET accepted == AcceptOnFirstUse(conn[p]) = "accepted"
           r == ReceiveLine(rbuf[p], IF accepted THEN wire[p] ELSE <<>>)
       IN  /\ conn' = [conn EXCEPT ![p] = AcceptOnFirstUse(@)]
           /\ wire' = [wire EXCEPT ![p] = IF accepted THEN <<>> ELSE @]
           /\ rbuf' = [rbuf EXCEPT ![p] = r.held]
           /\ IF r.ready
              THEN /\ msg_buffer' = [msg_buffer EXCEPT ![p] = Stage(@, r.line)]
                   /\ lock' = [lock EXCEPT ![p] = "free"]
                   /\ rpc' = [rpc EXCEPT ![p] = "check"]
                   /\ task' = [task EXCEPT ![p] = "polling"]
              ELSE /\ task' = [task EXCEPT ![p] = "parked"]
                   /\ UNCHANGED <<msg_buffer, lock, rpc>>
    /\ other' = [other EXCEPT ![p] = AcceptLater(conn[p], @)]
    /\ UNCHANGED entryVars
    /\ UNCHANGED <<abortReq, lastSend, hostSent, midWrite, sent>>
    /\ UNCHANGED <<queueVars, dropVars, loadVars, runVars, apiVars>>

\* Mutant of RecvTimeout: the guard of the mutex outlives the iteration.
RecvTimeout_KeepLock(p) ==
    /\ rpc[p] = "recv"
    /\ task[p] = "parked"
    /\ ~abortReq[p]
    /\ conn[p] # "pending"
    /\ conn[p] = "none" \/ wire[p] = <<>>
    /\ rbuf' = [rbuf EXCEPT ![p] = <<>>]
    /\ rpc' = [rpc EXCEPT ![p] = "check"]
    /\ task' = [task EXCEPT ![p] = "polling"]
    /\ UNCHANGED <<lock, abortReq, msg_buffer, lastSend, hostSent>>
    /\ UNCHANGED <<plugVars, queueVars, dropVars, loadVars, peerVars, runVars, apiVars>>

\* The 16 ms on get_instruction elapse: the pending future is dropped, and
\* with it the bytes read_line had taken from the stream.
RecvTimeout(p) ==
    /\ rpc[p] = "recv"
    /\ task[p] = "parked"
    /\ ~abortReq[p]
    /\ conn[p] # "pending"
    /\ conn[p] = "none" \/ wire[p] = <<>>
    /\ rbuf' = [rbuf EXCEPT ![p] = <<>>]
    /\ lock' = [lock EXCEPT ![p] = "free"]
    /\ rpc' = [rpc EXCEPT ![p] = "check"]
    /\ task' = [task EXCEPT ![p] = "polling"]
    /\ UNCHANGED <<abortReq, msg_buffer, lastSend, hostSent>>
    /\ UNCHANGED <<plugVars, queueVars, dropVars, loadVars, peerVars, runVars, apiVars>>

\* if msg_buffer.len() > 0
CheckBuffer(p) ==
    /\ rpc[p] = "check"
    /\ task[p] = "polling"
    /\ rpc' = [rpc EXCEPT ![p] = IF Len(msg_buffer[p]) > 0 THEN "send" ELSE "sleep"]
    /\ UNCHANGED <<lock, task, abortReq, rbuf, msg_buffer, lastSend, hostSent>>
    /\ UNCHANGED <<plugVars, queueVars, dropVars, loadVars, peerVars, runVars, apiVars>>

\* Mutant of QueueSendOk: the channel takes the envelope also when full.
QueueSendOk_Unbounded(p) ==
    /\ rpc[p] = "send"
    /\ CanRun(p)
    /\ rxOpen
    /\ queue' = Append(queue, Head(msg_buffer[p]))
    /\ msg_buffer' = [msg_buffer EXCEPT ![p] = Tail(@)]
    /\ lastSend' = [lastSend EXCEPT ![p] = "ok"]
    /\ rpc' = [rpc EXCEPT ![p] = "sleep"]
    /\ task' = [task EXCEPT ![p] = "polling"]
    /\ UNCHANGED <<lock, abortReq, rbuf, hostSent, rxOpen, consumed>>
    /\ UNCHANGED <<plugVars, dropVars, loadVars, peerVars, runVars, apiVars>>

\* timeout(16ms, tx.send(rx_data.clone())) with room in the channel: the
\* head of the buffer is enqueued and removed (the `_` arm).
QueueSendOk(p) ==
    /\ rpc[p] = "send"
    /\ CanRun(p)
    /\ rxOpen
    /\ Len(queue) < QueueCap
    /\ queue' = Append(queue, Head(msg_buffer[p]))
    /\ msg_buffer' = [msg_buffer EXCEPT ![p] = Tail(@)]
    /\ lastSend' = [lastSend EXCEPT ![p] = "ok"]
    /\ rpc' = [rpc EXCEPT ![p] = "sleep"]
    /\ task' = [task EXCEPT ![p] = "polling"]
    /\ UNCHANGED <<lock, abortReq, rbuf, hostSent, rxOpen, consumed>>
    /\ UNCHANGED <<plugVars, dropVars, loadVars, peerVars, runVars, apiVars>>

\* The channel is closed: tx.send returns Err(SendError) inside Ok(..), which
\* the `_` arm takes as well: the head is removed and the loop goes on.
QueueSendClosed(p) ==
    /\ rpc[p] = "send"
    /\ CanRun(p)
    /\ ~rxOpen
    /\ msg_buffer' = [msg_buffer EXCEPT ![p] = Tail(@)]
    /\ lastSend' = [lastSend EXCEPT ![p] = "closed"]
    /\ rpc' = [rpc EXCEPT ![p] = "sleep"]
    /\ task' = [task EXCEPT ![p] = "polling"]
    /\ UNCHANGED <<lock, abortReq, rbuf, hostSent>>
    /\ UNCHANGED <<plugVars, queueVars, dropVars, loadVars, peerVars, runVars, apiVars>>

\* The channel is full: the task suspends on tx.send.
QueueSendPark(p) ==
    /\ rpc[p] = "send"
    /\ task[p] = "polling"
    /\ rxOpen
    /\ Len(queue) >= QueueCap
    /\ task' = [task EXCEPT ![p] = "parked"]
    /\ UNCHANGED <<lock, rpc, abortReq, rbuf, msg_buffer, lastSend, hostSent>>
    /\ UNCHANGED <<plugVars, queueVars, dropVars, loadVars, peerVars, runVars, apiVars>>

\* Mutant of QueueSendTimeout: the envelope is removed on a timeout as well.
QueueSendTimeout_Drop(p) ==
    /\ rpc[p] = "send"
    /\ task[p] = "parked"
    /\ ~abortReq[p]
    /\ rxOpen
    /\ Len(queue) >= QueueCap
    /\ msg_buffer' = [msg_buffer EXCEPT ![p] = Tail(@)]
    /\ lastSend' = [lastSend EXCEPT ![p] = "timeout"]
    /\ rpc' = [rpc EXCEPT ![p] = "sleep"]
    /\ task' = [task EXCEPT ![p] = "polling"]
    /\ UNCHANGED <<lock, abortReq, rbuf, hostSent>>
    /\ UNCHANGED <<plugVars, queueVars, dropVars, loadVars, peerVars, runVars, apiVars>>

\* The 16 ms on tx.send elapse (the Err(e) arm): the envelope stays staged.
QueueSendTimeout(p) ==
    /\ rpc[p] = "send"
    /\ task[p] = "parked"
    /\ ~abortReq[p]
    /\ rxOpen
    /\ Len(queue) >= QueueCap
    /\ lastSend' = [lastSend EXCEPT ![p] = "timeout"]
    /\ rpc' = [rpc EXCEPT ![p] = "sleep"]
    /\ task' = [task EXCEPT ![p] = "polling"]
    /\ UNCHANGED <<lock, abortReq, rbuf, msg_buffer, hostSent>>
    /\ UNCHANGED <<plugVars, queueVars, dropVars, loadVars, peerVars, runVars, apiVars>>

\* sleep(Duration::from_millis(16)): a blocking sleep, then the next iteration.
Sleep(p) ==
    /\ rpc[p] = "sleep"
    /\ task[p] = "polling"
    /\ rpc' = [rpc EXCEPT ![p] = "lock"]
    /\ UNCHANGED <<lock, task, abortReq, rbuf, msg_buffer, lastSend, hostSent>>
    /\ UNCHANGED <<plugVars, queueVars, dropVars, loadVars, peerVars, runVars, apiVars>>

\* One step of the reader task of p.
ReaderStep(p) ==
    \/ LockAcquire(p) \/ LockPark(p) \/ LockTimeout(p)
    \/ RecvPoll(p) \/ RecvTimeout(p)
    \/ CheckBuffer(p)
    \/ QueueSendOk(p) \/ QueueSendClosed(p) \/ QueueSendPark(p) \/ QueueSendTimeout(p)
    \/ Sleep(p)

\* ------------------------------------------------- the send path, the consumer

\* Process::send_instruction: self.socket.lock().await, without a timeout.
SendLock(p) ==
    /\ dpc[p] = "alive"
    /\ lock[p] = "free"
    /\ hostSent[p] < MaxHostSends
    /\ lock' = [lock EXCEPT ![p] = "sender"]
    /\ UNCHANGED <<rpc, task, abortReq, rbuf, msg_buffer, lastSend, hostSent>>
    /\ UNCHANGED <<plugVars, queueVars, dropVars, loadVars, peerVars, runVars, apiVars>>

\* lock.send_plugin_instruction(inst).await: accept on first use, write the
\* line, then the guard is dropped.
SendWrite(p) ==
    /\ lock[p] = "sender"
    /\ conn[p] # "none"
    /\ conn' = [conn EXCEPT ![p] = AcceptOnFirstUse(@)]
    /\ other' = [other EXCEPT ![p] = AcceptLater(conn[p], @)]
    /\ UNCHANGED entryVars
    /\ hostSent' = [hostSent EXCEPT ![p] = @ + 1]
    /\ lock' = [lock EXCEPT ![p] = "free"]
    /\ UNCHANGED <<rpc, task, abortReq, rbuf, msg_buffer, lastSend>>
    /\ UNCHANGED <<wire, midWrite, sent, queueVars, dropVars, loadVars, runVars, apiVars>>

\* The consumer's rx.recv().
Consume ==
    /\ rxOpen
    /\ queue # <<>>
    /\ consumed' = Append(consumed, Head(queue))
    /\ queue' = Tail(queue)
    /\ UNCHANGED <<rxOpen, plugVars, readerVars, dropVars, loadVars, peerVars, runVars, apiVars>>

\* ----------------------------------------------------------------- teardown

\* Drop for the endpoint: on a platform with filesystem sockets the socket
\* file is removed if it exists, a failure being logged and swallowed.
SocketDrop(support, exists, removed) ==
    IF UsesPaths(support) THEN exists /\ ~removed ELSE exists

\* The socket file after `holder` gave up its Arc: the endpoint is dropped
\* with the last holder.
AfterRelease(p, holder, removed) ==
    IF arcs[p] \ {holder} = {}
    THEN SocketDrop(nameSupport, sockFile[p], removed)
    ELSE sockFile[p]

\* The runtime drops the future of an aborted task that is suspended: the
\* MutexGuard, the pending read, the staging buffer and the task's clone of
\* the Arc go with it.
TaskCancel(p) ==
    /\ task[p] = "parked"
    /\ abortReq[p]
    /\ \E removed \in BOOLEAN :
          sockFile' = [sockFile EXCEPT ![p] = AfterRelease(p, "task", removed)]
    /\ arcs' = [arcs EXCEPT ![p] = @ \ {"task"}]
    /\ task' = [task EXCEPT ![p] = "dead"]
    /\ lock' = [lock EXCEPT ![p] = IF @ = "reader" THEN "free" ELSE @]
    /\ rbuf' = [rbuf EXCEPT ![p] = <<>>]
    /\ msg_buffer' = [msg_buffer EXCEPT ![p] = <<>>]
    /\ UNCHANGED <<rpc, abortReq, lastSend, hostSent, dpc, child, dlog, nameSupport, socket_name>>
    /\ UNCHANGED <<plugVars, queueVars, loadVars, peerVars, runVars, apiVars>>

\* Mutant of DropAbort: drop goes on to the status check without aborting
\* the reader task.
DropAbort_Skipped(p) ==
    /\ dpc[p] = "alive"
    /\ lock[p] # "sender"
    /\ dpc' = [dpc EXCEPT ![p] = "try_wait"]
    /\ UNCHANGED <<dlog, child, arcs, sockFile, nameSupport, socket_name>>
    /\ UNCHANGED <<plugVars, readerVars, queueVars, loadVars, peerVars, runVars, apiVars>>

\* Process::drop, self.core_read_thread.abort().
DropAbort(p) ==
    /\ dpc[p] = "alive"
    /\ lock[p] # "sender"
    /\ abortReq' = [abortReq EXCEPT ![p] = TRUE]
    /\ dlog' = [dlog EXCEPT ![p] = Append(@, "abort")]
    /\ dpc' = [dpc EXCEPT ![p] = "try_wait"]
    /\ UNCHANGED <<lock, rpc, task, rbuf, msg_buffer, lastSend, hostSent>>
    /\ UNCHANGED <<child, arcs, sockFile, nameSupport, socket_name, plugVars, queueVars, loadVars, peerVars, runVars, apiVars>>

\* Mutant of DropTryWait: a child found exited is killed all the same.
DropTryWait_KillAnyway(p) ==
    /\ dpc[p] = "try_wait"
    /\ \E ok \in BOOLEAN :
          IF ~ok
          THEN /\ dlog' = [dlog EXCEPT ![p] = Append(@, "try_wait:err")]
               /\ dpc' = [dpc EXCEPT ![p] = "fields"]
               /\ child' = child
          ELSE IF child[p] = "exited"
          THEN /\ dlog' = [dlog EXCEPT ![p] = Append(@, "try_wait:exited")]
               /\ dpc' = [dpc EXCEPT ![p] = "kill"]
               /\ child' = [child EXCEPT ![p] = "reaped"]
          ELSE /\ dlog' = [dlog EXCEPT ![p] = Append(@, "try_wait:running")]
               /\ dpc' = [dpc EXCEPT ![p] = "kill"]
               /\ child' = child
    /\ UNCHANGED <<arcs, sockFile, nameSupport, socket_name, plugVars, readerVars, queueVars, loadVars, peerVars, runVars, apiVars>>

\* Process::drop, match self.child.try_wait().
DropTryWait(p) ==
    /\ dpc[p] = "try_wait"
    /\ \E ok \in BOOLEAN :
          IF ~ok
          THEN /\ dlog' = [dlog EXCEPT ![p] = Append(@, "try_wait:err")]
               /\ dpc' = [dpc EXCEPT ![p] = "fields"]
               /\ child' = child
          ELSE IF child[p] = "exited"
          THEN /\ dlog' = [dlog EXCEPT ![p] = Append(@, "try_wait:exited")]
               /\ dpc' = [dpc EXCEPT ![p] = "fields"]
               /\ child' = [child EXCEPT ![p] = "reaped"]
          ELSE /\ dlog' = [dlog EXCEPT ![p] = Append(@, "try_wait:running")]
               /\ dpc' = [dpc EXCEPT ![p] = "kill"]
               /\ child' = child
    /\ UNCHANGED <<arcs, sockFile, nameSupport, socket_name, plugVars, readerVars, queueVars, loadVars, peerVars, runVars, apiVars>>

\* Mutant of DropKill: after a successful kill drop returns without waiting.
DropKill_NoWait(p) ==
    /\ dpc[p] = "kill"
    /\ \E ok \in BOOLEAN :
          /\ dlog' = [dlog EXCEPT ![p] = Append(@, IF ok THEN "kill:ok" ELSE "kill:err")]
          /\ child' = [child EXCEPT ![p] = IF ok THEN "exited" ELSE @]
    /\ dpc' = [dpc EXCEPT ![p] = "fields"]
    /\ UNCHANGED <<arcs, sockFile, nameSupport, socket_name, plugVars, readerVars, queueVars, loadVars, peerVars, runVars, apiVars>>

\* Process::drop, match self.child.kill().
DropKill(p) ==
    /\ dpc[p] = "kill"
    /\ \E ok \in BOOLEAN :
          IF ok
          THEN /\ dlog' = [dlog EXCEPT ![p] = Append(@, "kill:ok")]
               /\ dpc' = [dpc EXCEPT ![p] = "wait"]
               /\ child' = [child EXCEPT ![p] = "exited"]
          ELSE /\ dlog' = [dlog EXCEPT ![p] = Append(@, "kill:err")]
               /\ dpc' = [dpc EXCEPT ![p] = "fields"]
               /\ child' = child
    /\ UNCHANGED <<arcs, sockFile, nameSupport, socket_name, plugVars, readerVars, queueVars, loadVars, peerVars, runVars, apiVars>>

\* Process::drop, match self.child.wait().
DropWait(p) ==
    /\ dpc[p] = "wait"
    /\ \E ok \in BOOLEAN :
          IF ok
          THEN /\ dlog' = [dlog EXCEPT ![p] = Append(@, "wait:ok")]
               /\ child' = [child EXCEPT ![p] = "reaped"]
          ELSE /\ dlog' = [dlog EXCEPT ![p] = Append(@, "wait:err")]
               /\ child' = child
    /\ dpc' = [dpc EXCEPT ![p] = "fields"]
    /\ UNCHANGED <<arcs, sockFile, nameSupport, socket_name, plugVars, readerVars, queueVars, loadVars, peerVars, runVars, apiVars>>

\* drop returns and the fields of Process are dropped: the JoinHandle is
\* detached and the wrapper's Arc released.
DropFields(p) ==
    /\ dpc[p] = "fields"
    /\ \E removed \in BOOLEAN :
          sockFile' = [sockFile EXCEPT ![p] = AfterRelease(p, "wrapper", removed)]
    /\ arcs' = [arcs EXCEPT ![p] = @ \ {"wrapper"}]
    /\ dpc' = [dpc EXCEPT ![p] = "dropped"]
    /\ UNCHANGED <<child, dlog, nameSupport, socket_name, plugVars, readerVars, queueVars, loadVars, peerVars, runVars, apiVars>>

\* The child process ends on its own.
ChildExit(p) ==
    /\ child[p] = "running"
    /\ child' = [child EXCEPT ![p] = "exited"]
    /\ UNCHANGED <<dpc, dlog, arcs, sockFile, nameSupport, socket_name>>
    /\ UNCHANGED <<plugVars, readerVars, queueVars, loadVars, peerVars, runVars, apiVars>>

\* The Receiver of the shared queue is dropped: the channel is closed and
\* what it held is gone.
CloseReceiver ==
    /\ rxOpen
    /\ rxOpen' = FALSE
    /\ queue' = <<>>
    /\ UNCHANGED <<consumed, plugVars, readerVars, dropVars, loadVars, peerVars, runVars, apiVars>>

\* One wrapper on any platform.
TeardownInit ==
    /\ \E support \in NameTypeSupport : WrappersInit({"A"}, support)
    /\ LoadIdle
    /\ ApiIdle

\* ------------------------------------------------------------ specifications

PluginStep(p) ==
    \/ PluginConnect(p) \/ PluginSend(p) \/ PluginSendHead(p) \/ PluginSendTail(p)

Next ==
    \/ \E p \in Plugins : PluginConnect(p)
    \/ \E p \in Plugins : PluginSend(p)
    \/ \E p \in Plugins : PluginSendHead(p)
    \/ \E p \in Plugins : PluginSendTail(p)
    \/ \E p \in Plugins : LockAcquire(p)
    \/ \E p \in Plugins : LockPark(p)
    \/ \E p \in Plugins : LockTimeout(p)
    \/ \E p \in Plugins : RecvPoll(p)
    \/ \E p \in Plugins : RecvTimeout(p)
    \/ \E p \in Plugins : CheckBuffer(p)
    \/ \E p \in Plugins : QueueSendOk(p)
    \/ \E p \in Plugins : QueueSendPark(p)
    \/ \E p \in Plugins : QueueSendTimeout(p)
    \/ \E p \in Plugins : Sleep(p)
    \/ \E p \in Plugins : SendLock(p)
    \/ \E p \in Plugins : SendWrite(p)
    \/ Consume

\* One wrapper: its plugin, its reader task, the host's send path and the
\* consumer of the queue.
Spec == Init /\ [][Next]_vars

\* The fan-in of two wrappers into the shared queue, the host sending nothing.
\* One wrapper and a second client that connects to its endpoint.
AcceptNext ==
    \/ Next
    \/ \E p \in Plugins : SecondConnect(p)

AcceptSpec == Init /\ [][AcceptNext]_vars

FanInNext ==
    \/ \E p \in Plugins : PluginConnect(p)
    \/ \E p \in Plugins : PluginSend(p)
    \/ \E p \in Plugins : PluginSendHead(p)
    \/ \E p \in Plugins : PluginSendTail(p)
    \/ \E p \in Plugins : LockAcquire(p)
    \/ \E p \in Plugins : RecvPoll(p)
    \/ \E p \in Plugins : RecvTimeout(p)
    \/ \E p \in Plugins : CheckBuffer(p)
    \/ \E p \in Plugins : QueueSendOk(p)
    \/ \E p \in Plugins : QueueSendPark(p)
    \/ \E p \in Plugins : QueueSendTimeout(p)
    \/ \E p \in Plugins : Sleep(p)
    \/ Consume

FanInSpec == FanInInit /\ [][FanInNext]_vars

TeardownNext ==
    \/ \E p \in Plugins : PluginConnect(p)
    \/ \E p \in Plugins : PluginSend(p)
    \/ \E p \in Plugins : LockAcquire(p)
    \/ \E p \in Plugins : LockPark(p)
    \/ \E p \in Plugins : LockTimeout(p)
    \/ \E p \in Plugins : RecvPoll(p)
    \/ \E p \in Plugins : RecvTimeout(p)
    \/ \E p \in Plugins : CheckBuffer(p)
    \/ \E p \in Plugins : QueueSendOk(p)
    \/ \E p \in Plugins : QueueSendPark(p)
    \/ \E p \in Plugins : QueueSendTimeout(p)
    \/ \E p \in Plugins : Sleep(p)
    \/ \E p \in Plugins : SendLock(p)
    \/ \E p \in Plugins : SendWrite(p)
    \/ Consume
    \/ \E p \in Plugins : QueueSendClosed(p)
    \/ \E p \in Plugins : TaskCancel(p)
    \/ \E p \in Plugins : DropAbort(p)
    \/ \E p \in Plugins : DropTryWait(p)
    \/ \E p \in Plugins : DropKill(p)
    \/ \E p \in Plugins : DropWait(p)
    \/ \E p \in Plugins : DropFields(p)
    \/ \E p \in Plugins : ChildExit(p)
    \/ CloseReceiver

\* One wrapper with its plugin (writing whole lines), reader task, send path
\* and consumer, the receiver of the queue that may go away and the wrapper
\* that may be dropped.
TeardownSpec == TeardownInit /\ [][TeardownNext]_vars

\* The reader task is scheduled whenever it can take a step, and the consumer
\* keeps reading the queue.
FairSpec ==
    /\ Init
    /\ [][Next]_vars
    /\ \A p \in Plugins : WF_vars(ReaderStep(p))
    /\ WF_vars(Consume)

\* ------------------------------------------------------------------- claims

\* What has reached the shared queue from plugin p, oldest first.
Delivered(p) == SelectSeq(consumed \o queue, LAMBDA m : m.src = p)

\* Number of positions of sequence s that hold m.
Count(s, m) == Cardinality({i \in 1..Len(s) : s[i] = m})

\* C1: the envelopes a wrapper's reader task puts on the shared queue appear
\* there in the order in which the plugin wrote them.
C1_QueueKeepsSendOrder ==
    \A p \in Plugins :
        \A i, j \in 1..Len(Delivered(p)) :
            i < j => Delivered(p)[i].id < Delivered(p)[j].id

\* C1 witness: three envelopes of one plugin have reached the queue, the
\* first two already taken by the consumer.
C1_Witness ==
    /\ Len(Delivered("A")) = 3
    /\ Len(consumed) = 2
    /\ Len(queue) = 1

\* An envelope is still on its way to the host while its newline has not been
\* written or has not been read.
InTransit(m) ==
    \/ midWrite[m.src] = m.id
    \/ \E i \in 1..Len(wire[m.src]) :
          wire[m.src][i].msg = m /\ HasNewline(wire[m.src][i])

\* Copies of an envelope held by the host: staged, queued or consumed.
Copies(m) == Count(msg_buffer[m.src], m) + Count(queue, m) + Count(consumed, m)

\* C2: every well-formed envelope written by any plugin is delivered exactly
\* once: once read from the endpoint it is held by the host in exactly one
\* place, and before that in none.
C2_ExactlyOnce ==
    \A p \in Plugins :
        \A n \in 1..Len(sent[p]) :
            sent[p][n].kind \in CoreKinds =>
                Copies(sent[p][n]) = (IF InTransit(sent[p][n]) THEN 0 ELSE 1)

\* Envelope n of plugin p is well-formed and written in full.
Written(p, n) ==
    /\ Len(sent[p]) >= n
    /\ sent[p][n].kind \in CoreKinds
    /\ midWrite[p] # n

\* Envelope n of plugin p is on the shared queue or was taken from it.
Queued(p, n) ==
    /\ Len(sent[p]) >= n
    /\ Count(consumed \o queue, sent[p][n]) > 0

\* C3: every well-formed envelope the connected plugin writes eventually
\* appears on the shared queue.
C3_EventuallyQueued ==
    \A p \in Plugins :
        \A n \in 1..MaxMsgs : Written(p, n) ~> Queued(p, n)

\* C4: a queue send that times out on a full queue leaves the envelope at
\* the head of the staging buffer and off the queue, and a staged head
\* leaves the buffer only by being put on the queue.
C4_TimedOutSendRetains ==
    [][\A p \in Plugins :
          /\ (rpc[p] = "send" /\ rxOpen /\ Len(queue) >= QueueCap /\ rpc'[p] # "send")
                => /\ msg_buffer'[p] = msg_buffer[p]
                   /\ queue' = queue
                   /\ lastSend'[p] = "timeout"
          /\ (rxOpen /\ msg_buffer[p] # <<>> /\ msg_buffer'[p] # msg_buffer[p]
                 /\ (msg_buffer'[p] = <<>> \/ Head(msg_buffer'[p]) # Head(msg_buffer[p])))
                => /\ queue' = Append(queue, Head(msg_buffer[p]))
                   /\ msg_buffer'[p] = Tail(msg_buffer[p])
      ]_vars

\* C4 witness: a queue send has just timed out on a full queue and the
\* envelope is still staged.
C4_Witness ==
    \E p \in Plugins :
        /\ lastSend[p] = "timeout"
        /\ rpc[p] = "sleep"
        /\ msg_buffer[p] # <<>>
        /\ Len(queue) = QueueCap

\* C5: a queue send that fails with channel-closed makes fetch_message_loop
\* exit: once a send has failed that way the reader task takes no further
\* step of its loop.
C5_ClosedQueueStopsReader ==
    [][\A p \in Plugins :
          lastSend[p] = "closed" => rpc'[p] = rpc[p]
      ]_vars

\* Positions of the calls of Process::drop in its log.
AbortAt(p) == {i \in 1..Len(dlog[p]) : dlog[p][i] = "abort"}
KillAt(p) == {i \in 1..Len(dlog[p]) : dlog[p][i] \in {"kill:ok", "kill:err"}}
WaitAt(p) == {i \in 1..Len(dlog[p]) : dlog[p][i] \in {"wait:ok", "wait:err"}}
Logged(p, call) == \E i \in 1..Len(dlog[p]) : dlog[p][i] = call

\* C6: in every execution of Process::drop the abort of the reader task is
\* issued before any kill signal is sent to the child.
C6_AbortBeforeKill ==
    \A p \in Plugins :
        \A k \in KillAt(p) : \E a \in AbortAt(p) : a < k

\* C6 witness: a drop has sent the kill signal.
C6_Witness ==
    \E p \in Plugins : KillAt(p) # {} /\ dpc[p] = "dropped"

C8_NoReaderActivityAfterDrop ==
    [][\A p \in Plugins :
          dpc[p] = "dropped" => (~RecvPoll(p) /\ ~QueueSendOk(p))
      ]_vars

\* C9: on a platform with filesystem sockets, once a live wrapper has been
\* dropped the endpoint's socket file no longer exists.
C9_SocketFileGoneAfterDrop ==
    \A p \in Plugins :
        (dpc[p] = "dropped" /\ UsesPaths(nameSupport)) => ~sockFile[p]

\* ---------------------------------------------------------------------
\* ProcessManager: construction and load_processes
\* ---------------------------------------------------------------------

\* What a path handed to from_dir_path can be.
PathKinds ==
    {Path(a, e, d) : a \in BOOLEAN, e \in BOOLEAN, d \in BOOLEAN} \
        {Path(a, FALSE, TRUE) : a \in BOOLEAN}

\* What the depth-2 walk can yield for one entry: a read error, something
\* that is not an executable file, an executable that loads, an executable
\* whose endpoint cannot be bound, an executable that cannot be spawned.
EntryKinds == {"walkerr", "not_exe", "exe", "bind_fail", "spawn_fail"}

\* Mutant of check_directory: existence is tested before absoluteness.
check_directory_ExistsFirst(d) ==
    IF ~d.exists THEN "NonExistent"
    ELSE IF ~d.abs THEN "RelativePath"
    ELSE IF ~d.isdir THEN "NonDirectory"
    ELSE "Ok"

\* check_directory: absolute, exists, is a directory, tested in that order.
check_directory(d) ==
    IF ~d.abs THEN "RelativePath"
    ELSE IF ~d.exists THEN "NonExistent"
    ELSE IF ~d.isdir THEN "NonDirectory"
    ELSE "Ok"

\* expected_file: a file with the executable extension.
expected_file(e) == e # "not_exe"

\* Directory walks of at most MaxEntries entries that hold no more loadable
\* executables than there are wrappers to build.
Loadable(w) == {i \in 1..Len(w) : w[i] = "exe"}
Walks ==
    {w \in UNION {[1..n -> EntryKinds] : n \in 0..MaxEntries} :
        Cardinality(Loadable(w)) <= Len(PluginOrder)}

\* ProcessManager::new: no directory.
ManagerNew ==
    /\ lpc = "unbuilt"
    /\ lpc' = "idle"
    /\ dir' = <<>>
    /\ UNCHANGED <<ui, walk, cursor, events, loadResult, loaded, runVars>>
    /\ UNCHANGED <<plugVars, readerVars, queueVars, dropVars, peerVars, apiVars>>

\* Mutant of from_dir_path: the manager is made of whatever path it is given.
from_dir_path_Unchecked(d) ==
    /\ lpc = "unbuilt"
    /\ lpc' = "idle"
    /\ dir' = <<d>>
    /\ UNCHANGED <<loadResult, ui, walk, cursor, events, loaded, runVars>>
    /\ UNCHANGED <<plugVars, readerVars, queueVars, dropVars, peerVars, apiVars>>

\* ProcessManager::from_dir_path: the directory is validated first and no
\* manager is made of a path that fails.
from_dir_path(d) ==
    /\ lpc = "unbuilt"
    /\ IF check_directory(d) = "Ok"
       THEN lpc' = "idle" /\ dir' = <<d>> /\ UNCHANGED loadResult
       ELSE lpc' = "failed" /\ loadResult' = check_directory(d) /\ UNCHANGED dir
    /\ UNCHANGED <<ui, walk, cursor, events, loaded, runVars>>
    /\ UNCHANGED <<plugVars, readerVars, queueVars, dropVars, peerVars, apiVars>>

\* Between construction and the load the directory is removed or replaced by
\* a file; the path itself stays absolute.
DirChanges ==
    /\ lpc = "idle"
    /\ dir # <<>>
    /\ dir[1].isdir
    /\ \E e \in BOOLEAN : dir' = <<Path(dir[1].abs, e, FALSE)>>
    /\ UNCHANGED <<lpc, ui, walk, cursor, events, loadResult, loaded, runVars>>
    /\ UNCHANGED <<plugVars, readerVars, queueVars, dropVars, peerVars, apiVars>>

\* load_processes, entry, with or without an observer: Started goes to the
\* observer, if there is one.
LoadEnter(o) ==
    /\ lpc = "idle"
    /\ ui' = o
    /\ events' = IF o THEN Append(events, "Started") ELSE events
    /\ lpc' = "dir"
    /\ UNCHANGED <<dir, walk, cursor, loadResult, loaded>>
    /\ UNCHANGED <<plugVars, readerVars, queueVars, dropVars, peerVars, apiVars>>

\* load_processes called on the manager directly.
LoadBegin ==
    /\ runpc = "off"
    /\ \E o \in BOOLEAN : LoadEnter(o)
    /\ UNCHANGED runVars

\* The argument of on_plugin_load_failure: the text of the error.
FailureEvent(e) ==
    CASE e = "NoPath" -> "LoadFailure:NoPath"
      [] e = "RelativePath" -> "LoadFailure:RelativePath"
      [] e = "NonExistent" -> "LoadFailure:NonExistent"
      [] e = "NonDirectory" -> "LoadFailure:NonDirectory"
      [] e = "bind_fail" -> "LoadFailure:bind_fail"
      [] e = "spawn_fail" -> "LoadFailure:spawn_fail"

\* Mutant of LoadReturn: Finished is reported at the end of the function body
\* only, so the early error returns skip it.
LoadReturn_TailCall(ev, result) ==
    /\ events' = IF ui /\ result = "Ok" THEN Append(ev, "Finished") ELSE ev
    /\ loadResult' = result
    /\ lpc' = "returned"

\* Any return of load_processes after the callbacks ev: the defer! block
\* reports Finished to the observer, if there is one, on the way out.
LoadReturn(ev, result) ==
    /\ events' = IF ui THEN Append(ev, "Finished") ELSE ev
    /\ loadResult' = result
    /\ lpc' = "returned"

\* load_processes, match self.dir.clone(): NoPath without a directory, the
\* error of check_directory for a directory that is no longer valid, else
\* the walk is set up.
LoadDir ==
    /\ lpc = "dir"
    /\ IF dir = <<>>
       THEN LoadReturn(events, "NoPath") /\ UNCHANGED <<walk, cursor>>
       ELSE IF check_directory(dir[1]) # "Ok"
       THEN LoadReturn(events, check_directory(dir[1])) /\ UNCHANGED <<walk, cursor>>
       ELSE /\ \E w \in Walks : walk' = w
            /\ cursor' = 1
            /\ lpc' = "walk"
            /\ UNCHANGED <<events, loadResult>>
    /\ UNCHANGED <<dir, ui, loaded, runVars>>
    /\ UNCHANGED <<plugVars, readerVars, queueVars, dropVars, peerVars, apiVars>>

\* LocalSocketListener::bind on a name that is taken: with filesystem paths
\* the name is taken while its socket file is there, in the namespace while
\* a listener bound to it is alive.
NameInUse(n) ==
    \E q \in Plugins :
        /\ socket_name[q] = n
        /\ IF UsesPaths(nameSupport) THEN sockFile[q] ELSE arcs[q] # {}

\* The wrapper load_process builds next.
NextSlot == PluginOrder[Len(loaded) + 1]

\* Mutant of load_process: the wrapper is built and not stored.
load_process_NoStore(p) ==
    /\ dpc' = [dpc EXCEPT ![p] = "alive"]
    /\ child' = [child EXCEPT ![p] = "running"]
    /\ arcs' = [arcs EXCEPT ![p] = {"wrapper", "task"}]
    /\ sockFile' = [sockFile EXCEPT ![p] = UsesPaths(nameSupport)]
    /\ task' = [task EXCEPT ![p] = "polling"]
    /\ \E n \in EndpointNames :
          /\ ~NameInUse(n)
          /\ socket_name' = [socket_name EXCEPT ![p] = n]
    /\ UNCHANGED <<loaded, dlog, nameSupport>>
    /\ UNCHANGED <<lock, rpc, abortReq, rbuf, msg_buffer, lastSend, hostSent>>

\* load_process on success: IPCServer::new binds the endpoint, Process::new
\* spawns the child and the reader task, the wrapper joins loaded_processes.
load_process(p) ==
    /\ loaded' = Append(loaded, p)
    /\ dpc' = [dpc EXCEPT ![p] = "alive"]
    /\ child' = [child EXCEPT ![p] = "running"]
    /\ arcs' = [arcs EXCEPT ![p] = {"wrapper", "task"}]
    /\ sockFile' = [sockFile EXCEPT ![p] = UsesPaths(nameSupport)]
    /\ task' = [task EXCEPT ![p] = "polling"]
    /\ \E n \in EndpointNames :
          /\ ~NameInUse(n)
          /\ socket_name' = [socket_name EXCEPT ![p] = n]
    /\ UNCHANGED <<dlog, nameSupport>>
    /\ UNCHANGED <<lock, rpc, abortReq, rbuf, msg_buffer, lastSend, hostSent>>

\* Mutant of LoadEntry: a child that cannot be built is reported and the
\* walk goes on with the next entry.
LoadEntry_Continue ==
    /\ lpc = "walk"
    /\ cursor <= Len(walk)
    /\ LET e == walk[cursor] IN
         IF ~expected_file(e) \/ e = "walkerr"
         THEN UNCHANGED <<events, loaded, dropVars, readerVars>>
         ELSE IF e = "exe"
         THEN /\ load_process(NextSlot)
              /\ events' = IF ui THEN Append(events, "Loaded") ELSE events
         ELSE /\ events' = IF ui THEN Append(events, FailureEvent(e)) ELSE events
              /\ UNCHANGED <<loaded, dropVars, readerVars>>
    /\ cursor' = cursor + 1
    /\ UNCHANGED <<lpc, loadResult, dir, ui, walk, runVars>>
    /\ UNCHANGED <<plugVars, queueVars, peerVars, apiVars>>

\* Mutant of LoadEntry: a child that cannot be built undoes the pass, the
\* wrappers stored so far are dropped with their children and reader tasks.
LoadEntry_Rollback ==
    /\ lpc = "walk"
    /\ cursor <= Len(walk)
    /\ LET e == walk[cursor]
           stored == {loaded[i] : i \in 1..Len(loaded)}
       IN
         IF ~expected_file(e) \/ e = "walkerr"
         THEN /\ cursor' = cursor + 1
              /\ UNCHANGED <<lpc, events, loadResult, loaded, dropVars, readerVars>>
         ELSE IF e = "exe"
         THEN /\ load_process(NextSlot)
              /\ events' = IF ui THEN Append(events, "Loaded") ELSE events
              /\ cursor' = cursor + 1
              /\ UNCHANGED <<lpc, loadResult>>
         ELSE /\ LoadReturn(IF ui THEN Append(events, FailureEvent(e)) ELSE events, e)
              /\ loaded' = <<>>
              /\ dpc' = [p \in Plugins |-> IF p \in stored THEN "dropped" ELSE dpc[p]]
              /\ child' = [p \in Plugins |-> IF p \in stored THEN "reaped" ELSE child[p]]
              /\ task' = [p \in Plugins |-> IF p \in stored THEN "dead" ELSE task[p]]
              /\ arcs' = [p \in Plugins |-> IF p \in stored THEN {} ELSE arcs[p]]
              /\ sockFile' = [p \in Plugins |-> IF p \in stored THEN FALSE ELSE sockFile[p]]
              /\ UNCHANGED <<cursor, dlog, nameSupport, socket_name>>
              /\ UNCHANGED <<lock, rpc, abortReq, rbuf, msg_buffer, lastSend, hostSent>>
    /\ UNCHANGED <<dir, ui, walk, runVars>>
    /\ UNCHANGED <<plugVars, queueVars, peerVars, apiVars>>

\* load_processes, one turn of the for loop over the filtered walk.
LoadEntry ==
    /\ lpc = "walk"
    /\ cursor <= Len(walk)
    /\ LET e == walk[cursor] IN
         IF ~expected_file(e) \/ e = "walkerr"
         THEN /\ cursor' = cursor + 1
              /\ UNCHANGED <<lpc, events, loadResult, loaded, dropVars, readerVars>>
         ELSE IF e = "exe"
         THEN /\ load_process(NextSlot)
              /\ events' = IF ui THEN Append(events, "Loaded") ELSE events
              /\ cursor' = cursor + 1
              /\ UNCHANGED <<lpc, loadResult>>
         ELSE /\ LoadReturn(IF ui THEN Append(events, FailureEvent(e)) ELSE events, e)
              /\ UNCHANGED <<cursor, loaded, dropVars, readerVars>>
    /\ UNCHANGED <<dir, ui, walk, runVars>>
    /\ UNCHANGED <<plugVars, queueVars, peerVars, apiVars>>

\* load_processes, the walk is exhausted: Ok(()).
LoadDone ==
    /\ lpc = "walk"
    /\ cursor > Len(walk)
    /\ LoadReturn(events, "Ok")
    /\ UNCHANGED <<dir, ui, walk, cursor, loaded, runVars>>
    /\ UNCHANGED <<plugVars, readerVars, queueVars, dropVars, peerVars, apiVars>>

\* Mutant of prepare_dir: without a directory a default one is created.
prepare_dir_Default ==
    /\ created' = TRUE
    /\ prepResult' = "Ok"
    /\ dir' = IF dir = <<>> THEN <<Path(TRUE, TRUE, TRUE)>>
              ELSE <<Path(dir[1].abs, TRUE, TRUE)>>

\* prepare_dir: NoPath without a directory, else fs::create_dir_all(dir),
\* which succeeds on a directory that is there, creates a missing one unless
\* the filesystem refuses, and fails on a path held by a file.
prepare_dir ==
    IF dir = <<>>
    THEN /\ prepResult' = "NoPath"
         /\ UNCHANGED <<dir, created>>
    ELSE /\ created' = TRUE
         /\ \/ /\ dir[1].isdir
               /\ prepResult' = "Ok"
               /\ UNCHANGED dir
            \/ /\ dir[1].exists /\ ~dir[1].isdir
               /\ prepResult' = "IoError"
               /\ UNCHANGED dir
            \/ /\ ~dir[1].exists
               /\ prepResult' = "Ok"
               /\ dir' = <<Path(dir[1].abs, TRUE, TRUE)>>
            \/ /\ ~dir[1].exists
               /\ prepResult' = "IoError"
               /\ UNCHANGED dir

\* prepare_dir called on the manager directly.
PrepareDir ==
    /\ lpc = "idle"
    /\ runpc = "off"
    /\ prepResult = "none"
    /\ prepare_dir
    /\ UNCHANGED <<lpc, ui, walk, cursor, events, loadResult, loaded, runpc, runResult>>
    /\ UNCHANGED <<plugVars, readerVars, queueVars, dropVars, peerVars, apiVars>>

\* A manager yet to be built, no wrapper alive.
LoadInit ==
    /\ \E support \in NameTypeSupport : WrappersInit({}, support)
    /\ lpc = "unbuilt"
    /\ dir = <<>>
    /\ ui = FALSE
    /\ walk = <<>>
    /\ cursor = 1
    /\ events = <<>>
    /\ loadResult = "none"
    /\ loaded = <<>>
    /\ runpc = "off"
    /\ runResult = "none"
    /\ prepResult = "none"
    /\ created = FALSE
    /\ ApiIdle

LoadNext ==
    \/ ManagerNew
    \/ \E d \in PathKinds : from_dir_path(d)
    \/ DirChanges
    \/ PrepareDir
    \/ LoadBegin
    \/ LoadDir
    \/ LoadEntry
    \/ LoadDone

\* One manager, built either way, and one call of load_processes.
LoadSpec == LoadInit /\ [][LoadNext]_vars

\* Number of times the observer callback e has been made.
Calls(e) == Cardinality({i \in 1..Len(events) : events[i] = e})

\* C10: in a call of load_processes with an observer, Started is the first
\* callback and Finished the last one of the call, each made exactly once,
\* whichever way the call returns; until it returns Finished is not made.
C10_StartedFinishedBracket ==
    /\ (ui /\ lpc \in {"dir", "walk"}) =>
           /\ events[1] = "Started"
           /\ Calls("Started") = 1
           /\ Calls("Finished") = 0
    /\ (ui /\ lpc = "returned") =>
           /\ events[1] = "Started"
           /\ events[Len(events)] = "Finished"
           /\ Calls("Started") = 1
           /\ Calls("Finished") = 1

\* C10 witness: a call with an observer returned the error of a child that
\* could not be spawned, after one plugin had been loaded.
C10_Witness ==
    /\ ui
    /\ lpc = "returned"
    /\ loadResult = "spawn_fail"
    /\ events = <<"Started", "Loaded", "LoadFailure:spawn_fail", "Finished">>

\* ---------------------------------------------------------------------
\* Core::run
\* ---------------------------------------------------------------------

\* Core::run, ui.on_core_pre_init().
RunBegin ==
    /\ runpc = "off"
    /\ lpc = "idle"
    /\ events' = Append(events, "PreInit")
    /\ runpc' = "prepare"
    /\ UNCHANGED <<lpc, dir, ui, walk, cursor, loadResult, loaded>>
    /\ UNCHANGED <<runResult, prepResult, created>>
    /\ UNCHANGED <<plugVars, readerVars, queueVars, dropVars, peerVars, apiVars>>

\* Core::run, self.proc_manager.prepare_dir()?: an error is returned as is.
RunPrepare ==
    /\ runpc = "prepare"
    /\ prepare_dir
    /\ IF prepResult' = "Ok"
       THEN runpc' = "load" /\ UNCHANGED runResult
       ELSE runpc' = "returned" /\ runResult' = prepResult'
    /\ UNCHANGED <<lpc, ui, walk, cursor, events, loadResult, loaded>>
    /\ UNCHANGED <<plugVars, readerVars, queueVars, dropVars, peerVars, apiVars>>

\* Core::run, self.proc_manager.load_processes(Some(ui)).
RunLoad ==
    /\ runpc = "load"
    /\ LoadEnter(TRUE)
    /\ runpc' = "loading"
    /\ UNCHANGED <<runResult, prepResult, created>>

\* Mutant of RunFinish: on_core_post_init is reached only after a load that
\* succeeded.
RunFinish_PostInitOnSuccess ==
    /\ runpc = "loading"
    /\ lpc = "returned"
    /\ events' = IF loadResult # "Ok"
                 THEN Append(events, FailureEvent(loadResult))
                 ELSE Append(events, "PostInit")
    /\ runResult' = "Ok"
    /\ runpc' = "returned"
    /\ UNCHANGED <<lpc, dir, ui, walk, cursor, loadResult, loaded>>
    /\ UNCHANGED <<prepResult, created>>
    /\ UNCHANGED <<plugVars, readerVars, queueVars, dropVars, peerVars, apiVars>>

\* Mutant of RunFinish: the error of load_processes is propagated.
RunFinish_Propagate ==
    /\ runpc = "loading"
    /\ lpc = "returned"
    /\ events' = Append(IF loadResult # "Ok"
                        THEN Append(events, FailureEvent(loadResult))
                        ELSE events,
                        "PostInit")
    /\ runResult' = loadResult
    /\ runpc' = "returned"
    /\ UNCHANGED <<lpc, dir, ui, walk, cursor, loadResult, loaded>>
    /\ UNCHANGED <<prepResult, created>>
    /\ UNCHANGED <<plugVars, readerVars, queueVars, dropVars, peerVars, apiVars>>

\* Mutant of RunFinish: run keeps the error of load_processes to itself.
RunFinish_NoReport ==
    /\ runpc = "loading"
    /\ lpc = "returned"
    /\ events' = Append(events, "PostInit")
    /\ runResult' = "Ok"
    /\ runpc' = "returned"
    /\ UNCHANGED <<lpc, dir, ui, walk, cursor, loadResult, loaded>>
    /\ UNCHANGED <<prepResult, created>>
    /\ UNCHANGED <<plugVars, readerVars, queueVars, dropVars, peerVars, apiVars>>

\* Core::run after load_processes returned: its error, if any, goes to
\* on_plugin_load_failure, then on_core_post_init, then Ok(()).
RunFinish ==
    /\ runpc = "loading"
    /\ lpc = "returned"
    /\ events' = Append(IF loadResult # "Ok"
                        THEN Append(events, FailureEvent(loadResult))
                        ELSE events,
                        "PostInit")
    /\ runResult' = "Ok"
    /\ runpc' = "returned"
    /\ UNCHANGED <<lpc, dir, ui, walk, cursor, loadResult, loaded>>
    /\ UNCHANGED <<prepResult, created>>
    /\ UNCHANGED <<plugVars, readerVars, queueVars, dropVars, peerVars, apiVars>>

\* The filesystem changes under the Core while run is between two of its
\* calls on the manager.
CoreNext ==
    \/ \E d \in PathKinds : from_dir_path(d)
    \/ DirChanges
    \/ RunBegin
    \/ RunPrepare
    \/ RunLoad
    \/ LoadDir
    \/ LoadEntry
    \/ LoadDone
    \/ RunFinish

\* A Core made by Core::new_from_dir and one call of Core::run.
CoreSpec == LoadInit /\ [][CoreNext]_vars

\* Positions of the observer callback e.
At(e) == {i \in 1..Len(events) : events[i] = e}

\* C11: in Core::run on_core_pre_init comes first and before prepare_dir
\* touches the filesystem, the Started..Finished pass comes after it, and
\* on_core_post_init comes last and exactly once after a load that was
\* made, whether it succeeded or failed.
C11_RunCallbackOrder ==
    /\ (created \/ runpc # "off") => (events # <<>> /\ events[1] = "PreInit")
    /\ Calls("PreInit") <= 1 /\ Calls("PostInit") <= 1
    /\ \A i \in At("Started") : \A j \in At("PreInit") : j < i
    /\ \A i \in At("Finished") : \A j \in At("Started") : j < i
    /\ \A i \in At("PostInit") :
          /\ i = Len(events)
          /\ At("Finished") # {}
          /\ \A j \in At("Finished") : j < i
    /\ (runpc = "returned" /\ lpc = "returned") =>
          /\ Calls("Started") = 1 /\ Calls("Finished") = 1
          /\ Calls("PostInit") = 1

\* C11 witness: a run whose load failed on a child has returned.
C11_Witness ==
    /\ runpc = "returned"
    /\ loadResult = "bind_fail"
    /\ events[Len(events)] = "PostInit"
    /\ created

\* C12: when load_processes fails inside Core::run, run calls
\* on_plugin_load_failure with the text of that error and returns Ok; run
\* returns an error exactly when prepare_dir failed, and then that error.
C12_LoadFailureNotPropagated ==
    runpc = "returned" =>
        /\ (runResult # "Ok") <=> (prepResult # "Ok")
        /\ prepResult # "Ok" => (runResult = prepResult /\ lpc = "idle")
        /\ (prepResult = "Ok" /\ loadResult # "Ok") =>
              /\ runResult = "Ok"
              /\ Len(events) >= 2
              /\ events[Len(events) - 1] = FailureEvent(loadResult)
        /\ (prepResult = "Ok" /\ loadResult = "Ok") =>
              \A i \in 1..Len(events) :
                  events[i] \in {"PreInit", "Started", "Loaded", "Finished", "PostInit"}

\* C12 witness: run returned Ok although the directory had stopped being
\* one by the time load_processes validated it.
C12_Witness ==
    /\ runpc = "returned"
    /\ runResult = "Ok"
    /\ loadResult = "NonDirectory"
    /\ events = <<"PreInit", "Started", "Finished", "LoadFailure:NonDirectory", "PostInit">>

\* The errors of a child that could not be built.
ChildErrors == {"bind_fail", "spawn_fail"}

\* The wrappers that have a child process.
Spawned == {p \in Plugins : child[p] # "none"}

\* C13: check_directory answers RelativePath for a relative path, else
\* NonExistent for a path that is not there, else NonDirectory for one that
\* is no directory; a construction that fails leaves no manager, no walk and
\* no child, and a manager's directory is always an absolute path.
C13_DirectoryValidation ==
    /\ \A d \in PathKinds :
          /\ ~d.abs => check_directory(d) = "RelativePath"
          /\ (d.abs /\ ~d.exists) => check_directory(d) = "NonExistent"
          /\ (d.abs /\ d.exists /\ ~d.isdir) => check_directory(d) = "NonDirectory"
          /\ (d.abs /\ d.isdir) => check_directory(d) = "Ok"
    /\ lpc = "failed" =>
          /\ loadResult \in {"RelativePath", "NonExistent", "NonDirectory"}
          /\ dir = <<>> /\ walk = <<>> /\ loaded = <<>> /\ events = <<>>
          /\ Spawned = {}
    /\ dir # <<>> => dir[1].abs

\* C13 witness: a construction was refused for a relative path.
C13_Witness ==
    lpc = "failed" /\ loadResult = "RelativePath"

\* C14: on a manager made without a path no step creates a directory,
\* spawns a child or changes the loaded wrappers, and whatever prepare_dir
\* or load_processes returns there is NoPath.
C14_NoPathManager ==
    [][(lpc # "unbuilt" /\ dir = <<>>) =>
          /\ dir' = <<>>
          /\ created' = created
          /\ loaded' = loaded
          /\ child' = child
          /\ walk' = walk
          /\ prepResult' # prepResult => prepResult' = "NoPath"
          /\ loadResult' # loadResult => loadResult' = "NoPath"
      ]_vars

\* C14 witness: both calls have returned NoPath on a manager without a path.
C14_Witness ==
    /\ dir = <<>>
    /\ prepResult = "NoPath"
    /\ lpc = "returned"
    /\ loadResult = "NoPath"
    /\ ~created

\* C15: when a child cannot be built during a pass, load_processes returns
\* that error, the observer has been told of it once, just before Finished,
\* and only candidates ahead of the failing one have been brought up; a pass
\* never goes beyond a candidate that failed.
C15_FailureAbortsEnumeration ==
    /\ (lpc = "returned" /\ loadResult \in ChildErrors) =>
          /\ walk[cursor] = loadResult
          /\ \A i \in 1..(cursor - 1) : walk[i] \notin ChildErrors
          /\ Len(loaded) = Cardinality({i \in 1..(cursor - 1) : walk[i] = "exe"})
          /\ Cardinality(Spawned) = Len(loaded)
          /\ ui => /\ Len(events) >= 2
                   /\ events[Len(events) - 1] = FailureEvent(loadResult)
                   /\ Calls(FailureEvent(loadResult)) = 1
    /\ lpc = "walk" =>
          \A i \in 1..(cursor - 1) : walk[i] \notin ChildErrors
    /\ (lpc = "returned" /\ loadResult = "Ok") =>
          \A i \in 1..Len(walk) : walk[i] \notin ChildErrors

\* C15 witness: the first candidate could not be spawned and a loadable one
\* that came after it was left alone.
C15_Witness ==
    /\ lpc = "returned"
    /\ loadResult = "spawn_fail"
    /\ ui
    /\ Len(walk) >= 2 /\ walk[1] = "spawn_fail" /\ walk[2] = "exe"
    /\ loaded = <<>>

\* ---------------------------------------------------------------------
\* The framing codec and the dispatchers
\* ---------------------------------------------------------------------

\* The instruction_type strings put on the stream in either direction: the
\* variants of the two enums and one that is a variant of neither.
SendKinds(to) == (IF to = "core" THEN CoreKinds ELSE PluginKinds) \cup {"Silliness"}

\* convert_struct_to_str and send_str_over_ipc: the JSON text of the
\* envelope, the raw payload copied into it as it is, and a "\n" after it.
Serialize(m) ==
    IF m.payload.breaks THEN <<UpToBreak(m), AfterBreak(m)>> ELSE <<WholeLine(m)>>

\* serde_json::from_str::<DeserializablePluginInstr>.
ParsePluginLine(line) == convert_str_to_struct(line, PluginKinds)

\* A send in the direction `to`: the envelope is serialised and written.
ApiSend(to, k, pl) ==
    /\ pipe.to = "none"
    /\ inbox = <<>>
    /\ Len(sentLog) < MaxTrips
    /\ LET m == [src |-> IF to = "core" THEN "A" ELSE "host",
                 id |-> Len(sentLog) + 1, kind |-> k, payload |-> pl]
       IN  /\ sentLog' = Append(sentLog, [to |-> to, env |-> m])
           /\ pipe' = [to |-> to, data |-> Serialize(m)]
    /\ UNCHANGED <<recvLog, inbox, dispatches>>
    /\ UNCHANGED <<plugVars, readerVars, queueVars, dropVars, loadVars, peerVars, runVars>>

\* IPCClient::send_core_instruction.
ClientSend == \E k \in SendKinds("core"), pl \in Payloads : ApiSend("core", k, pl)

\* Process::send_instruction -> send_plugin_instruction of the endpoint.
HostSend == \E k \in SendKinds("plugin"), pl \in Payloads : ApiSend("plugin", k, pl)

\* A recv in the direction `to`: receive_line, then convert_str_to_struct.
\* What the reader of that call had taken beyond the line is gone with it;
\* a stream that has ended stays ended.
ApiRecv(to, kinds) ==
    /\ pipe.to = to
    /\ Len(recvLog) <= MaxFrames
    /\ LET r == ReceiveLine(<<>>, pipe.data)
           d == convert_str_to_struct(r.line, kinds)
       IN  /\ r.ready
           /\ recvLog' = Append(recvLog, [to |-> to, ok |-> d.ok, env |-> d.msg,
                                          end |-> LineEnd(r.line)])
           /\ inbox' = IF d.ok THEN <<[to |-> to, env |-> d.msg]>> ELSE <<>>
    /\ pipe' = IF \E i \in 1..Len(pipe.data) : pipe.data[i] = Eof
               THEN [to |-> to, data |-> <<Eof>>]
               ELSE [to |-> "none", data |-> <<>>]
    /\ UNCHANGED <<sentLog, dispatches>>
    /\ UNCHANGED <<plugVars, readerVars, queueVars, dropVars, loadVars, peerVars, runVars>>

\* The endpoint's recv of a core-bound envelope.
HostRecv == ApiRecv("core", CoreKinds)

\* IPCClient::recv_plugin_instruction.
ClientRecv == ApiRecv("plugin", PluginKinds)

\* serde_json::from_str::<T>(payload.get()) for the schema T.
PayloadParses(schema, pl) == schema \in pl.fits

\* Mutant of call_core_handler: the KeepaliveResponse arm calls on_init.
call_core_handler_WrongArm(m) ==
    CASE m.kind = "Init" ->
           IF PayloadParses("InitDataInstruction", m.payload)
           THEN [result |-> "Ok", calls |-> <<"on_init">>]
           ELSE [result |-> "DecodeError", calls |-> <<>>]
      [] m.kind = "AuthAccountResponse" ->
           IF PayloadParses("AuthAccountResponse", m.payload)
           THEN [result |-> "Ok", calls |-> <<"on_auth_account_response">>]
           ELSE [result |-> "DecodeError", calls |-> <<>>]
      [] m.kind = "KeepaliveResponse" ->
           IF PayloadParses("KeepaliveInstruction", m.payload)
           THEN [result |-> "Ok", calls |-> <<"on_init">>]
           ELSE [result |-> "DecodeError", calls |-> <<>>]

\* Mutant of call_core_handler: the Init arm calls its handler whether the
\* payload parsed or not.
call_core_handler_Lenient(m) ==
    CASE m.kind = "Init" ->
           IF PayloadParses("InitDataInstruction", m.payload)
           THEN [result |-> "Ok", calls |-> <<"on_init">>]
           ELSE [result |-> "DecodeError", calls |-> <<"on_init">>]
      [] m.kind = "AuthAccountResponse" ->
           IF PayloadParses("AuthAccountResponse", m.payload)
           THEN [result |-> "Ok", calls |-> <<"on_auth_account_response">>]
           ELSE [result |-> "DecodeError", calls |-> <<>>]
      [] m.kind = "KeepaliveResponse" ->
           IF PayloadParses("KeepaliveInstruction", m.payload)
           THEN [result |-> "Ok", calls |-> <<"on_keepalive_response">>]
           ELSE [result |-> "DecodeError", calls |-> <<>>]

\* call_core_handler of the core: one arm per CoreInstructionType; the
\* payload is parsed into the schema of the arm and the arm's handler is
\* called with it, or the parse error is returned.
call_core_handler(m) ==
    CASE m.kind = "Init" ->
           IF PayloadParses("InitDataInstruction", m.payload)
           THEN [result |-> "Ok", calls |-> <<"on_init">>]
           ELSE [result |-> "DecodeError", calls |-> <<>>]
      [] m.kind = "AuthAccountResponse" ->
           IF PayloadParses("AuthAccountResponse", m.payload)
           THEN [result |-> "Ok", calls |-> <<"on_auth_account_response">>]
           ELSE [result |-> "DecodeError", calls |-> <<>>]
      [] m.kind = "KeepaliveResponse" ->
           IF PayloadParses("KeepaliveInstruction", m.payload)
           THEN [result |-> "Ok", calls |-> <<"on_keepalive_response">>]
           ELSE [result |-> "DecodeError", calls |-> <<>>]

\* call_core_handler of the plugin side: one arm per PluginInstructionType.
plugin_call_core_handler(m) ==
    CASE m.kind = "AuthAccount" ->
           IF PayloadParses("AuthAccountInstruction", m.payload)
           THEN [result |-> "Ok", calls |-> <<"on_auth_account">>]
           ELSE [result |-> "DecodeError", calls |-> <<>>]
      [] m.kind = "Keepalive" ->
           IF PayloadParses("KeepaliveInstruction", m.payload)
           THEN [result |-> "Ok", calls |-> <<"on_keepalive">>]
           ELSE [result |-> "DecodeError", calls |-> <<>>]

\* A decoded envelope is handed to the dispatcher of its direction.
Dispatch(to) ==
    /\ inbox # <<>>
    /\ inbox[1].to = to
    /\ LET m == inbox[1].env
           d == IF to = "core" THEN call_core_handler(m) ELSE plugin_call_core_handler(m)
       IN  dispatches' = Append(dispatches,
               [to |-> to, env |-> m, result |-> d.result, calls |-> d.calls])
    /\ inbox' = <<>>
    /\ UNCHANGED <<pipe, sentLog, recvLog>>
    /\ UNCHANGED <<plugVars, readerVars, queueVars, dropVars, loadVars, peerVars, runVars>>

CoreDispatch == Dispatch("core")

PluginDispatch == Dispatch("plugin")

ApiNext ==
    \/ ClientSend
    \/ HostSend
    \/ HostRecv
    \/ ClientRecv
    \/ CoreDispatch
    \/ PluginDispatch

\* Envelopes sent one at a time in either direction, each received and, if
\* it decodes, dispatched.
ApiSpec == Init /\ [][ApiNext]_vars

\* The schema a kind's payload has to parse into, and the handler callback
\* that belongs to the kind, in the direction `to`.
SchemaOf(to, k) ==
    IF to = "core"
    THEN CASE k = "Init" -> "InitDataInstruction"
           [] k = "KeepaliveResponse" -> "KeepaliveInstruction"
           [] k = "AuthAccountResponse" -> "AuthAccountResponse"
    ELSE CASE k = "Keepalive" -> "KeepaliveInstruction"
           [] k = "AuthAccount" -> "AuthAccountInstruction"
CallbackOf(to, k) ==
    IF to = "core"
    THEN CASE k = "Init" -> "on_init"
           [] k = "KeepaliveResponse" -> "on_keepalive_response"
           [] k = "AuthAccountResponse" -> "on_auth_account_response"
    ELSE CASE k = "Keepalive" -> "on_keepalive"
           [] k = "AuthAccount" -> "on_auth_account"

\* C16: for an envelope whose payload parses into the schema of its kind,
\* either dispatcher calls the one handler callback of that kind, once, and
\* returns success.
C16_DispatchCallsMatchingHandler ==
    \A i \in 1..Len(dispatches) :
        LET d == dispatches[i] IN
        SchemaOf(d.to, d.env.kind) \in d.env.payload.fits =>
            /\ d.result = "Ok"
            /\ d.calls = <<CallbackOf(d.to, d.env.kind)>>

\* C16 witness: a KeepaliveResponse whose payload parses into every schema
\* has been dispatched by the core.
C16_Witness ==
    \E i \in 1..Len(dispatches) :
        /\ dispatches[i].to = "core"
        /\ dispatches[i].env.kind = "KeepaliveResponse"
        /\ dispatches[i].env.payload.fits = Schemas
        /\ dispatches[i].calls = <<"on_keepalive_response">>

C19_RoundTripIdentity ==
    \A i \in 1..Len(recvLog) :
        sentLog[i].env.kind \in (IF sentLog[i].to = "core" THEN CoreKinds ELSE PluginKinds) =>
            /\ recvLog[i].ok
            /\ recvLog[i].env.kind = sentLog[i].env.kind
            /\ recvLog[i].env.payload = sentLog[i].env.payload

\* A line of plugin p with a kind no CoreInstructionType variant carries was
\* written as line n.
BadLine(p, n) ==
    /\ Len(sent[p]) >= n
    /\ sent[p][n].kind \notin CoreKinds
    /\ midWrite[p] # n

\* C18: a line with an unknown kind is never staged nor put on the shared
\* queue, and a well-formed envelope that follows it is not lost: once read
\* from the endpoint it is staged, queued or consumed.
C18_BadLineDroppedRestDelivered ==
    /\ \A p \in Plugins :
          \A i \in 1..Len(msg_buffer[p]) : msg_buffer[p][i].kind \in CoreKinds
    /\ \A i \in 1..Len(consumed \o queue) :
          (consumed \o queue)[i].kind \in CoreKinds
    /\ \A p \in Plugins :
          \A n \in 2..MaxMsgs :
              (BadLine(p, n - 1) /\ Written(p, n)) =>
                  \/ InTransit(sent[p][n])
                  \/ Copies(sent[p][n]) >= 1

MaxArgs == 2

ExePath == "exe"

\* What argv[0] can be: the path of the executable or any other text.
Argv0s == {ExePath} \cup EndpointNames

\* utils::socket::get_socket_name: the platform's form of an endpoint name.
get_socket_name(support, name) ==
    IF UsesPaths(support) THEN <<"/tmp/", name, ".sock">> ELSE <<"@", name, ".sock">>

\* The lists of at most n arguments, each an endpoint name.
ArgLists(n) == UNION {[1..k -> EndpointNames] : k \in 0..n}

\* load_process: IPCServer::new(socket_name) binds the endpoint for the child.
HostBind(n) ==
    /\ ename = "none"
    /\ epc = "off"
    /\ ename' = n
    /\ UNCHANGED <<argv, byHost, epc, target, attached, outbox, other>>
    /\ UNCHANGED <<plugVars, readerVars, queueVars, dropVars, loadVars, runVars, apiVars>>

\* Process::new: Command::new(&path).arg(socket_name_arg).spawn(); the child
\* sees the path as argv[0] and the endpoint name after it.
HostSpawn ==
    /\ ename # "none"
    /\ epc = "off"
    /\ argv' = <<ExePath, ename>>
    /\ byHost' = TRUE
    /\ epc' = "started"
    /\ UNCHANGED <<ename, target, attached, outbox, other>>
    /\ UNCHANGED <<plugVars, readerVars, queueVars, dropVars, loadVars, runVars, apiVars>>

\* The executable started by something else than Process::new, with any
\* argv[0] and any arguments.
DirectLaunch(a0, extra) ==
    /\ epc = "off"
    /\ argv' = <<a0>> \o extra
    /\ byHost' = FALSE
    /\ epc' = "started"
    /\ UNCHANGED <<ename, target, attached, outbox, other>>
    /\ UNCHANGED <<plugVars, readerVars, queueVars, dropVars, loadVars, runVars, apiVars>>

\* run_plugin: args.len() != 1 panics; otherwise socket_id = args[0].
SocketIdOf(args) ==
    IF Len(args) # 1 THEN [ok |-> FALSE, id |-> "none"]
    ELSE [ok |-> TRUE, id |-> args[1]]

\* run_plugin up to the choice of socket_id.
RunPluginArgs ==
    /\ epc = "started"
    /\ IF SocketIdOf(argv).ok
       THEN /\ target' = SocketIdOf(argv).id
            /\ epc' = "connecting"
       ELSE /\ epc' = "panicked"
            /\ UNCHANGED target
    /\ UNCHANGED <<ename, argv, byHost, attached, outbox, other>>
    /\ UNCHANGED <<plugVars, readerVars, queueVars, dropVars, loadVars, runVars, apiVars>>

\* SocketCommunicator::new(socket_id): LocalSocketStream::connect to the
\* resolved name; it succeeds when an endpoint is bound under that name, and
\* run_plugin panics when it fails.
RunPluginConnect ==
    /\ epc = "connecting"
    /\ IF /\ ename # "none"
          /\ get_socket_name(nameSupport, target) = get_socket_name(nameSupport, ename)
       THEN /\ attached' = get_socket_name(nameSupport, target)
            /\ epc' = "connected"
       ELSE /\ epc' = "panicked"
            /\ UNCHANGED attached
    /\ UNCHANGED <<ename, argv, byHost, target, outbox, other>>
    /\ UNCHANGED <<plugVars, readerVars, queueVars, dropVars, loadVars, runVars, apiVars>>

\* run_plugin: send_core_instruction of the Init envelope; an error of the
\* send is logged and run_plugin returns all the same.
RunPluginSendInit ==
    /\ epc = "connected"
    /\ \E sendOk \in BOOLEAN :
          outbox' = IF sendOk THEN Append(outbox, "Init") ELSE outbox
    /\ epc' = "returned"
    /\ UNCHANGED <<ename, argv, byHost, target, attached, other>>
    /\ UNCHANGED <<plugVars, readerVars, queueVars, dropVars, loadVars, runVars, apiVars>>

\* A manager without wrappers on any platform, and no plugin started yet.
EntryInit ==
    /\ \E support \in NameTypeSupport : WrappersInit({}, support)
    /\ LoadIdle
    /\ ApiIdle

EntryNext ==
    \/ \E n \in EndpointNames : HostBind(n)
    \/ HostSpawn
    \/ \E a0 \in Argv0s : \E extra \in ArgLists(MaxArgs) : DirectLaunch(a0, extra)
    \/ RunPluginArgs
    \/ RunPluginConnect
    \/ RunPluginSendInit

\* One plugin executable, started by the host or by hand, up to the return
\* of run_plugin.
EntrySpec == EntryInit /\ [][EntryNext]_vars

\* C21: a plugin that Process::new started with the endpoint name as its
\* one argument takes that name as its socket_id and connects to the
\* endpoint the host bound, and the first envelope it sends is Init.
C21_HostStartedPluginConnects ==
    (byHost /\ epc \notin {"off", "started"}) =>
        /\ epc # "panicked"
        /\ target = ename
        /\ attached \in {"none", get_socket_name(nameSupport, ename)}
        /\ outbox # <<>> => outbox[1] = "Init"

\* ------------------------------------------------------ framing of sends

\* Payloads that parse into every schema: one whose text is a single line
\* and one whose text holds a line break.
FramePayloads == {pl \in Payloads : pl.fits = Schemas}

\* convert_struct_to_str, then send_str_over_ipc: format!("{}\n", msg) and
\* write_all, also while earlier lines of the same direction are unread.
FrameSend(to, k, pl) ==
    /\ pipe.to \in {"none", to}
    /\ \A i \in 1..Len(pipe.data) : pipe.data[i] # Eof
    /\ Len(sentLog) < MaxFrames
    /\ LET m == [src |-> IF to = "core" THEN "A" ELSE "host",
                 id |-> Len(sentLog) + 1, kind |-> k, payload |-> pl]
       IN  /\ sentLog' = Append(sentLog, [to |-> to, env |-> m])
           /\ pipe' = [to |-> to, data |-> pipe.data \o Serialize(m)]
    /\ UNCHANGED <<recvLog, inbox, dispatches>>
    /\ UNCHANGED <<plugVars, readerVars, queueVars, dropVars, loadVars, peerVars, runVars>>

\* IPCClient::send_core_instruction, any number of times before a recv.
ClientFrameSend ==
    \E k \in CoreKinds, pl \in FramePayloads : FrameSend("core", k, pl)

\* Process::send_instruction, any number of times before a recv.
HostFrameSend ==
    \E k \in PluginKinds, pl \in FramePayloads : FrameSend("plugin", k, pl)

FrameNext ==
    \/ ClientFrameSend
    \/ HostFrameSend
    \/ HostRecv
    \/ ClientRecv

\* The two peers of one connection, sending and receiving framed envelopes.
FrameSpec == Init /\ [][FrameNext]_vars

\* C22: a send writes the serialised envelope and exactly one newline, so
\* the peer's recv obtains exactly one envelope per send: once everything
\* written was read, the recvs returned the envelopes sent, one for one.
C22_OneEnvelopePerSend ==
    pipe.to = "none" =>
        /\ Len(recvLog) = Len(sentLog)
        /\ \A i \in 1..Len(recvLog) :
              /\ recvLog[i].ok
              /\ recvLog[i].env = sentLog[i].env

\* ------------------------------------------------- a peer that goes away

\* How much of a line a peer has written when its connection closes.
ClosePoints == {"nothing", "cut", "all_but_newline"}

\* The peer's write half is dropped (the process exits or is killed) while a
\* send_str_over_ipc is under way or before any: write_all got none of the
\* line out, a part of the JSON text, or all of it except the "\n".
PeerCloses(to, k, pl, how) ==
    /\ pipe.to \in {"none", to}
    /\ \A i \in 1..Len(pipe.data) : pipe.data[i] # Eof
    /\ Len(sentLog) < MaxFrames
    /\ LET m == [src |-> IF to = "core" THEN "A" ELSE "host",
                 id |-> Len(sentLog) + 1, kind |-> k, payload |-> pl]
           left == CASE how = "nothing" -> <<Eof>>
                     [] how = "cut" -> <<CutPiece(m), Eof>>
                     [] how = "all_but_newline" -> <<JsonPiece(m), Eof>>
       IN  /\ sentLog' = IF how = "nothing" THEN sentLog
                         ELSE Append(sentLog, [to |-> to, env |-> m])
           /\ pipe' = [to |-> to, data |-> pipe.data \o left]
    /\ UNCHANGED <<recvLog, inbox, dispatches>>
    /\ UNCHANGED <<plugVars, readerVars, queueVars, dropVars, loadVars, peerVars, runVars>>

\* The plugin goes away while or before sending to the host.
ClientCloses ==
    \E k \in CoreKinds, how \in ClosePoints :
        \E pl \in {x \in FramePayloads : ~x.breaks} : PeerCloses("core", k, pl, how)

\* The host's endpoint goes away while or before sending to the plugin.
HostCloses ==
    \E k \in PluginKinds, how \in ClosePoints :
        \E pl \in {x \in FramePayloads : ~x.breaks} : PeerCloses("plugin", k, pl, how)

CloseNext ==
    \/ ClientFrameSend
    \/ HostFrameSend
    \/ ClientCloses
    \/ HostCloses
    \/ HostRecv
    \/ ClientRecv

\* Two peers of one connection, either of which may go away.
CloseSpec == Init /\ [][CloseNext]_vars

C24_QueueWithinCapacity == Len(queue) <= QueueCap

\* C24 witness: the queue is full while every wrapper has an envelope staged
\* and its reader task is at tx.send.
C24_Witness ==
    /\ Len(queue) = QueueCap
    /\ \A p \in Plugins : Len(msg_buffer[p]) > 0 /\ rpc[p] = "send"

\* C25: a wrapper has at most one reader task, and its endpoint is used by
\* one party at a time: the reader task is at its recv exactly while it holds
\* the mutex, and never while send_instruction holds it.
C25_EndpointUsedUnderMutex ==
    \A p \in Plugins :
        /\ Cardinality(arcs[p] \ {"wrapper"}) <= 1
        /\ rpc[p] = "recv" <=> lock[p] = "reader"
        /\ lock[p] = "sender" => rpc[p] # "recv"

\* C25 witness: send_instruction holds the mutex of a live wrapper while its
\* reader task, which wants the endpoint, waits for the mutex.
C25_Witness ==
    \E p \in Plugins :
        /\ dpc[p] = "alive"
        /\ lock[p] = "sender"
        /\ rpc[p] = "lock"
        /\ task[p] = "parked"

\* A send_instruction call of the host waits for, or is about to ask for,
\* the mutex of wrapper p.
SendPending(p) ==
    /\ dpc[p] = "alive"
    /\ hostSent[p] < MaxHostSends
    /\ lock[p] # "sender"

\* The reader task is scheduled whenever it can take a step, and the mutex
\* is handed to waiters in the order they asked (tokio's Mutex is fair), so
\* a waiting send_instruction gets it if it is free again and again.
SendFairSpec ==
    /\ Init
    /\ [][Next]_vars
    /\ \A p \in Plugins : WF_vars(ReaderStep(p))
    /\ \A p \in Plugins : SF_vars(SendLock(p))

\* C26: a send_instruction call that waits for the mutex of a live wrapper
\* eventually holds it, the reader task running all the while.
C26_SendEventuallyLocks ==
    \A p \in Plugins : SendPending(p) ~> lock[p] = "sender"

\* C26 witness: send_instruction holds the mutex after the reader task has
\* held it for a recv and delivered an envelope, and the reader task is back
\* at its lock attempt.
C26_Witness ==
    \E p \in Plugins :
        /\ lock[p] = "sender"
        /\ lastSend[p] = "ok"
        /\ rpc[p] = "lock"

\* C27: a reader task whose staged envelope cannot be enqueued because the
\* shared queue is full takes no further envelope from its endpoint: its
\* staging buffer never holds more than one envelope.
C27_AtMostOneStaged ==
    \A p \in Plugins : Len(msg_buffer[p]) <= 1

\* C28: in a pass with an observer on_plugin_loaded has been called once for
\* every wrapper the pass stored, and for nothing else: as many times as
\* wrappers were added, which are the loadable executables the walk has gone
\* past; a candidate that failed adds neither a wrapper nor a call.
C28_LoadedCallPerWrapper ==
    /\ (ui /\ lpc \in {"walk", "returned"}) =>
          /\ Calls("Loaded") = Len(loaded)
          /\ Len(loaded) <= Cardinality({i \in 1..Len(walk) : walk[i] = "exe"})
    /\ (ui /\ lpc = "walk") =>
          Len(loaded) = Cardinality({i \in 1..(cursor - 1) : walk[i] = "exe"})
    /\ ~ui => Calls("Loaded") = 0

\* C28 witness: a pass with an observer stored two wrappers and then met a
\* child whose endpoint could not be bound.
C28_Witness ==
    /\ ui
    /\ lpc = "returned"
    /\ loadResult = "bind_fail"
    /\ Len(loaded) = 2
    /\ Calls("Loaded") = 2

\* ---------------------------------------------------- per-child bring-up

\* IPCServer::new(socket_name): the listener is bound under the name, and
\* load_process owns the endpoint until Process::new takes it.
IPCServer_new(ok) == IF ok THEN {"load_process"} ELSE {}

\* Mutant of LpBind: a bind error is not returned and bring-up goes on.
LpBind_GoesOn ==
    /\ lpc = "idle"
    /\ Len(loaded) < Len(PluginOrder)
    /\ \E n \in EndpointNames : \E ok \in BOOLEAN :
          /\ NameInUse(n) => ~ok
          /\ arcs' = [arcs EXCEPT ![NextSlot] = IPCServer_new(ok)]
          /\ sockFile' = [sockFile EXCEPT ![NextSlot] =
                              IF ok THEN UsesPaths(nameSupport) ELSE @]
          /\ socket_name' = [socket_name EXCEPT ![NextSlot] = IF ok THEN n ELSE @]
          /\ lpc' = "lp_bound"
          /\ UNCHANGED loadResult
    /\ UNCHANGED <<dir, ui, walk, cursor, events, loaded, runVars>>
    /\ UNCHANGED <<dpc, child, dlog, nameSupport>>
    /\ UNCHANGED <<plugVars, readerVars, queueVars, peerVars, apiVars>>

\* Mutant of LpBind: the listener takes a name over from whoever holds it.
LpBind_SharesName ==
    /\ lpc = "idle"
    /\ Len(loaded) < Len(PluginOrder)
    /\ \E n \in EndpointNames : \E ok \in BOOLEAN :
          /\ arcs' = [arcs EXCEPT ![NextSlot] = IPCServer_new(ok)]
          /\ sockFile' = [sockFile EXCEPT ![NextSlot] =
                              IF ok THEN UsesPaths(nameSupport) ELSE @]
          /\ socket_name' = [socket_name EXCEPT ![NextSlot] = IF ok THEN n ELSE @]
          /\ IF ok
             THEN lpc' = "lp_bound" /\ UNCHANGED loadResult
             ELSE lpc' = "idle" /\ loadResult' = "bind_fail"
    /\ UNCHANGED <<dir, ui, walk, cursor, events, loaded, runVars>>
    /\ UNCHANGED <<dpc, child, dlog, nameSupport>>
    /\ UNCHANGED <<plugVars, readerVars, queueVars, peerVars, apiVars>>

\* load_process: generate_random_ipc_id() mints any name, and
\* let socket = IPCServer::new(socket_name)? binds it; the bind fails on a
\* name that is in use, and may fail on any; on an error load_process
\* returns it at once.
LpBind ==
    /\ lpc = "idle"
    /\ Len(loaded) < Len(PluginOrder)
    /\ \E n \in EndpointNames : \E ok \in BOOLEAN :
          /\ NameInUse(n) => ~ok
          /\ arcs' = [arcs EXCEPT ![NextSlot] = IPCServer_new(ok)]
          /\ sockFile' = [sockFile EXCEPT ![NextSlot] =
                              IF ok THEN UsesPaths(nameSupport) ELSE @]
          /\ socket_name' = [socket_name EXCEPT ![NextSlot] = IF ok THEN n ELSE @]
          /\ IF ok
             THEN lpc' = "lp_bound" /\ UNCHANGED loadResult
             ELSE lpc' = "idle" /\ loadResult' = "bind_fail"
    /\ UNCHANGED <<dir, ui, walk, cursor, events, loaded, runVars>>
    /\ UNCHANGED <<dpc, child, dlog, nameSupport>>
    /\ UNCHANGED <<plugVars, readerVars, queueVars, peerVars, apiVars>>

\* Mutant of LpSpawn: the reader task is spawned before the child, and stays
\* when the child cannot be spawned.
LpSpawn_TaskFirst ==
    /\ lpc = "lp_bound"
    /\ \E ok \in BOOLEAN :
          IF ok
          THEN /\ child' = [child EXCEPT ![NextSlot] = "running"]
               /\ task' = [task EXCEPT ![NextSlot] = "polling"]
               /\ arcs' = [arcs EXCEPT ![NextSlot] = {"wrapper", "task"}]
               /\ dpc' = [dpc EXCEPT ![NextSlot] = "alive"]
               /\ lpc' = "lp_built"
               /\ UNCHANGED <<sockFile, loadResult>>
          ELSE /\ task' = [task EXCEPT ![NextSlot] = "polling"]
               /\ arcs' = [arcs EXCEPT ![NextSlot] = {"task"}]
               /\ lpc' = "idle"
               /\ loadResult' = "spawn_fail"
               /\ UNCHANGED <<child, dpc, sockFile>>
    /\ UNCHANGED <<dir, ui, walk, cursor, events, loaded, runVars>>
    /\ UNCHANGED <<dlog, nameSupport, socket_name>>
    /\ UNCHANGED <<lock, rpc, abortReq, rbuf, msg_buffer, lastSend, hostSent>>
    /\ UNCHANGED <<plugVars, queueVars, peerVars, apiVars>>

\* Process::new: the endpoint goes into an Arc that is cloned for the reader
\* task, then Command::spawn. Ok: the task is spawned and the wrapper made.
\* Err: the error is returned and both Arcs are dropped with the function's
\* locals, which drops the endpoint.
LpSpawn ==
    /\ lpc = "lp_bound"
    /\ \E ok \in BOOLEAN :
          IF ok
          THEN /\ child' = [child EXCEPT ![NextSlot] = "running"]
               /\ task' = [task EXCEPT ![NextSlot] = "polling"]
               /\ arcs' = [arcs EXCEPT ![NextSlot] = {"wrapper", "task"}]
               /\ dpc' = [dpc EXCEPT ![NextSlot] = "alive"]
               /\ lpc' = "lp_built"
               /\ UNCHANGED <<sockFile, loadResult>>
          ELSE /\ \E removed \in BOOLEAN :
                     sockFile' = [sockFile EXCEPT ![NextSlot] =
                                     SocketDrop(nameSupport, @, removed)]
               /\ arcs' = [arcs EXCEPT ![NextSlot] = {}]
               /\ lpc' = "idle"
               /\ loadResult' = "spawn_fail"
               /\ UNCHANGED <<child, task, dpc>>
    /\ UNCHANGED <<dir, ui, walk, cursor, events, loaded, runVars>>
    /\ UNCHANGED <<dlog, nameSupport, socket_name>>
    /\ UNCHANGED <<lock, rpc, abortReq, rbuf, msg_buffer, lastSend, hostSent>>
    /\ UNCHANGED <<plugVars, queueVars, peerVars, apiVars>>

\* load_process, the Ok(p) arm: self.loaded_processes.push(p), then Ok(()).
LpStore ==
    /\ lpc = "lp_built"
    /\ loaded' = Append(loaded, NextSlot)
    /\ loadResult' = "Ok"
    /\ lpc' = "idle"
    /\ UNCHANGED <<dir, ui, walk, cursor, events, runVars>>
    /\ UNCHANGED <<plugVars, readerVars, queueVars, dropVars, peerVars, apiVars>>

BringUpNext ==
    \/ ManagerNew
    \/ LpBind
    \/ LpSpawn
    \/ LpStore
    \/ \E p \in Plugins : PluginConnect(p)
    \/ \E p \in Plugins : ChildExit(p)

\* load_process called on a manager, one child after the other, with the
\* children connecting or ending on their own meanwhile.
BringUpSpec == LoadInit /\ [][BringUpNext]_vars

\* C29: the endpoint of a child is bound before the child is spawned, and a
\* bind that fails returns its error with no child spawned and no wrapper
\* stored.
C29_BoundBeforeSpawn ==
    /\ [][\A p \in Plugins :
             (child[p] = "none" /\ child'[p] # "none") => arcs[p] = {"load_process"}
         ]_vars
    /\ []((lpc = "idle" /\ loadResult = "bind_fail") =>
             /\ Len(loaded) < Len(PluginOrder)
             /\ child[NextSlot] = "none"
             /\ task[NextSlot] = "none"
             /\ arcs[NextSlot] = {}
             /\ \A i \in 1..Len(loaded) : loaded[i] # NextSlot)

\* C29 witness: after a bind failed for the second child, the first one being
\* stored, nothing of the second child exists.
C29_Witness ==
    /\ lpc = "idle"
    /\ loadResult = "bind_fail"
    /\ Len(loaded) = 1
    /\ child[PluginOrder[1]] = "running"
    /\ child[PluginOrder[2]] = "none"

\* C30: when the spawn of the executable fails, load_process returns that
\* error and what it leaves of the child is nothing: no process, no reader
\* task, no stored wrapper, and no holder of the endpoint made for it.
C30_SpawnFailureLeavesNothing ==
    (lpc = "idle" /\ loadResult = "spawn_fail") =>
        /\ Len(loaded) < Len(PluginOrder)
        /\ child[NextSlot] = "none"
        /\ task[NextSlot] = "none"
        /\ dpc[NextSlot] = "absent"
        /\ arcs[NextSlot] = {}
        /\ \A i \in 1..Len(loaded) : loaded[i] # NextSlot

\* C30 witness: the spawn of the first child failed on a platform with socket
\* files, the endpoint was dropped and its file removed.
C30_Witness ==
    /\ lpc = "idle"
    /\ loadResult = "spawn_fail"
    /\ loaded = <<>>
    /\ UsesPaths(nameSupport)
    /\ ~sockFile[PluginOrder[1]]

\* C31: Process::drop checks before it acts: every kill comes right after a
\* status check that found the child running, every wait right after a kill
\* that succeeded, and a drop whose status check found the child exited, or
\* failed, neither kills nor waits.
C31_CheckThenAct ==
    \A p \in Plugins :
        /\ \A k \in KillAt(p) : k > 1 /\ dlog[p][k - 1] = "try_wait:running"
        /\ \A w \in WaitAt(p) : w > 1 /\ dlog[p][w - 1] = "kill:ok"
        /\ (Logged(p, "try_wait:exited") \/ Logged(p, "try_wait:err")) =>
              KillAt(p) = {} /\ WaitAt(p) = {}

\* C31 witness: a drop has returned that found its child already exited.
C31_Witness ==
    \E p \in Plugins :
        /\ dpc[p] = "dropped"
        /\ dlog[p] = <<"abort", "try_wait:exited">>

\* The errors load_processes can return.
LoadErrors == {"NoPath", "RelativePath", "NonExistent", "NonDirectory",
               "bind_fail", "spawn_fail"}

\* The positions of the on_plugin_load_failure calls made so far.
FailureCalls == {i \in 1..Len(events) :
                    \E e \in LoadErrors : events[i] = FailureEvent(e)}

\* C32: once Core::run has returned, every error that stopped its
\* initialization (an error of prepare_dir, of the directory validation or
\* of a child's construction) has been handed to on_plugin_load_failure.
C32_EveryErrorReported ==
    runpc = "returned" =>
        /\ prepResult # "Ok" => FailureCalls # {}
        /\ (prepResult = "Ok" /\ loadResult # "Ok") =>
              \E i \in FailureCalls : events[i] = FailureEvent(loadResult)

\* core::socket_handler::get_socket_name: the resolver of SocketHandler::new.
SocketHandler_get_socket_name(support, name) ==
    IF UsesPaths(support) THEN <<"/tmp/", name, ".sock">> ELSE <<"@", name, ".sock">>

\* client_sdk::socket::get_socket_name: the resolver of the client that is
\* given the endpoint name.
ClientSocket_get_socket_name(support, name) ==
    IF UsesPaths(support) THEN <<"/tmp/", name, ".sock">> ELSE <<"@", name, ".sock">>

\* The one name client_sdk's own SocketCommunicator knows.
LegacyName == "polychat"

\* client_sdk::get_socket_name (client_sdk/mod.rs): it takes no name and
\* returns "/tmp/polychat.sock" or "@polychat.sock".
ClientSdk_get_socket_name(support) ==
    IF UsesPaths(support) THEN <<"/tmp/", LegacyName, ".sock">>
    ELSE <<"@", LegacyName, ".sock">>

\* client_sdk's SocketCommunicator::new(): the started client connects to
\* get_socket_name(), whatever name the host bound for it; the connection is
\* made only when that is the name of a bound endpoint.
LegacyConnect ==
    /\ epc = "started"
    /\ target' = LegacyName
    /\ IF /\ ename # "none"
          /\ ClientSdk_get_socket_name(nameSupport)
                = SocketHandler_get_socket_name(nameSupport, ename)
       THEN /\ attached' = ClientSdk_get_socket_name(nameSupport)
            /\ epc' = "legacy_connected"
       ELSE /\ epc' = "legacy_refused"
            /\ UNCHANGED attached
    /\ UNCHANGED <<ename, argv, byHost, outbox, other>>
    /\ UNCHANGED <<plugVars, readerVars, queueVars, dropVars, loadVars, runVars, apiVars>>

ResolveNext ==
    \/ \E n \in EndpointNames \cup {LegacyName} : HostBind(n)
    \/ HostSpawn
    \/ \E a0 \in Argv0s : \E extra \in ArgLists(MaxArgs) : DirectLaunch(a0, extra)
    \/ RunPluginArgs
    \/ RunPluginConnect
    \/ RunPluginSendInit
    \/ LegacyConnect

\* An endpoint bound by the host under any name and one client of either
\* kind started for it.
ResolveSpec == EntryInit /\ [][ResolveNext]_vars

\* C33 without the client of client_sdk/mod.rs: the resolved name is
\* /tmp/<N>.sock with paths (or both) and @<N>.sock with the namespace only,
\* different names resolve to different socket names, and the resolvers
\* that take a name agree.
NamedResolversAgree ==
    \A s \in NameTypeSupport : \A n \in EndpointNames \cup {LegacyName} :
        /\ get_socket_name(s, n) =
              (IF s = "OnlyNamespaced" THEN <<"@", n, ".sock">>
               ELSE <<"/tmp/", n, ".sock">>)
        /\ SocketHandler_get_socket_name(s, n) = get_socket_name(s, n)
        /\ ClientSocket_get_socket_name(s, n) = get_socket_name(s, n)
        /\ \A m \in EndpointNames \cup {LegacyName} :
              get_socket_name(s, n) = get_socket_name(s, m) => n = m

\* C33: resolving is a deterministic, injective function of the name and
\* the socket support, and a client-side resolver gives the socket name the
\* host-side resolver gave for the logical name the host bound: a client
\* that resolved has the host's socket name as the one it connects to.
C33_ResolversAgree ==
    /\ NamedResolversAgree
    /\ (ename # "none" /\ epc = "connected") =>
          attached = SocketHandler_get_socket_name(nameSupport, ename)
    /\ (ename # "none" /\ epc \in {"legacy_connected", "legacy_refused"}) =>
          ClientSdk_get_socket_name(nameSupport)
              = SocketHandler_get_socket_name(nameSupport, ename)

\* The places of fetch_message_loop after the match on the lock: the test of
\* msg_buffer, the queue send and the sleep.
AfterLockArm == {"check", "send", "sleep"}

\* C34: the reader task holds the mutex of the endpoint in no place of its
\* iteration after the recv: every step that takes it past the recv gives
\* the mutex back, and it is not the holder while it tests the buffer,
\* waits on the shared queue or sleeps.
C34_LockFreeAtQueueSend ==
    /\ [][\A p \in Plugins :
            (rpc[p] = "recv" /\ rpc'[p] \in AfterLockArm) =>
                (lock[p] = "reader" /\ lock'[p] = "free")]_vars
    /\ [](\A p \in Plugins : rpc[p] \in AfterLockArm => lock[p] # "reader")

\* C34 witness: the reader task is suspended on the full shared queue with
\* an envelope staged while send_instruction holds the mutex it gave back.
C34_Witness ==
    \E p \in Plugins :
        /\ rpc[p] = "send"
        /\ task[p] = "parked"
        /\ Len(msg_buffer[p]) > 0
        /\ Len(queue) = QueueCap
        /\ lock[p] = "sender"

\* Every line plugin p wrote up to line n is a well-formed envelope.
AllWellFormed(p, n) == \A i \in 1..n : sent[p][i].kind \in CoreKinds

\* C35: a recv of the reader task that its 16 ms timeout cancels takes
\* nothing from the stream, so the bytes it had read are there for the next
\* recv; and a well-formed envelope on a stream of well-formed envelopes,
\* whether its bytes came in two pieces around a timeout or in one read with
\* the envelope before it, is held by the host once its newline was read.
C35_TimedOutRecvConsumesNothing ==
    /\ [][\A p \in Plugins :
            (rpc[p] = "recv" /\ task[p] = "parked" /\ ~abortReq[p]
                /\ rpc'[p] = "check" /\ msg_buffer'[p] = msg_buffer[p])
              => rbuf'[p] = rbuf[p]]_vars
    /\ [](\A p \in Plugins :
            \A n \in 1..Len(sent[p]) :
                (AllWellFormed(p, n) /\ midWrite[p] # n) =>
                    \/ InTransit(sent[p][n])
                    \/ \E i \in 1..Len(rbuf[p]) : rbuf[p][i].msg = sent[p][n]
                    \/ Copies(sent[p][n]) >= 1)

\* The wrappers stored before p in loaded_processes.
StoredBefore(p) ==
    {q \in Plugins : \E i, j \in 1..Len(PluginOrder) :
                        i < j /\ PluginOrder[i] = q /\ PluginOrder[j] = p}

\* Drop of ProcessManager, the field loaded_processes: the Vec drops its
\* wrappers one after the other, in the order in which they were stored.
ManagerDropWrapper(p) ==
    /\ \A q \in StoredBefore(p) : dpc[q] = "dropped"
    /\ DropAbort(p)

\* Mutant of ManagerDropReceiver: shared_queue_rx is declared, and so
\* dropped, before loaded_processes.
ManagerDropReceiver_First ==
    /\ \A p \in Plugins : dpc[p] \in {"alive", "absent"}
    /\ CloseReceiver

\* Drop of ProcessManager, the field shared_queue_rx: it is declared after
\* loaded_processes, so it is dropped once every wrapper has been.
ManagerDropReceiver ==
    /\ \A p \in Plugins : dpc[p] \in {"dropped", "absent"}
    /\ \E p \in Plugins : dpc[p] = "dropped"
    /\ CloseReceiver

ManagerDropNext ==
    \/ \E p \in Plugins : PluginConnect(p)
    \/ \E p \in Plugins : PluginSend(p)
    \/ \E p \in Plugins : LockAcquire(p)
    \/ \E p \in Plugins : RecvPoll(p)
    \/ \E p \in Plugins : RecvTimeout(p)
    \/ \E p \in Plugins : CheckBuffer(p)
    \/ \E p \in Plugins : QueueSendOk(p)
    \/ \E p \in Plugins : QueueSendPark(p)
    \/ \E p \in Plugins : QueueSendTimeout(p)
    \/ \E p \in Plugins : QueueSendClosed(p)
    \/ \E p \in Plugins : Sleep(p)
    \/ Consume
    \/ \E p \in Plugins : TaskCancel(p)
    \/ \E p \in Plugins : ManagerDropWrapper(p)
    \/ \E p \in Plugins : DropTryWait(p)
    \/ \E p \in Plugins : DropKill(p)
    \/ \E p \in Plugins : DropWait(p)
    \/ \E p \in Plugins : DropFields(p)
    \/ ManagerDropReceiver

\* A manager with a wrapper, its plugin and reader task, and the manager's
\* drop: the wrappers in order, then the receiver of the shared queue.
ManagerDropSpec == Init /\ [][ManagerDropNext]_vars

\* C36: the shared queue is open as long as the manager has not begun to
\* drop its wrappers; the receiver goes only after every wrapper was dropped
\* and its reader task aborted; and a reader task whose queue send finds the
\* queue closed had been aborted before.
C36_QueueOpenUntilWrappersDropped ==
    /\ []((\A p \in Plugins : dpc[p] \in {"alive", "absent"}) => rxOpen)
    /\ [][(rxOpen /\ ~rxOpen') =>
            \A p \in Plugins :
                dpc[p] # "absent" => (dpc[p] = "dropped" /\ abortReq[p])]_vars
    /\ [][\A p \in Plugins :
            (lastSend'[p] = "closed" /\ lastSend[p] # "closed") => abortReq[p]]_vars

\* C36 witness: the manager is gone, wrappers first and receiver last, and
\* the reader task of a wrapper, aborted while it was running, found the
\* queue closed when it came to its queue send.
C36_Witness ==
    /\ ~rxOpen
    /\ \E p \in Plugins :
          dpc[p] = "dropped" /\ lastSend[p] = "closed" /\ abortReq[p]


\* The wrappers in loaded_processes.
Stored == {loaded[i] : i \in 1..Len(loaded)}

\* C37: load_processes never takes a wrapper out of loaded_processes: a step
\* leaves the stored wrappers where they are, alive, with their children and
\* reader tasks as they were, and adds at most one at the end; so after a
\* pass that a failed child aborted, everything stored before the failure is
\* still stored and running.
C37_NoRollback ==
    /\ [][/\ Len(loaded') >= Len(loaded)
          /\ SubSeq(loaded', 1, Len(loaded)) = loaded
          /\ \A p \in Stored :
                /\ dpc'[p] = "alive"
                /\ child'[p] = child[p]
                /\ task'[p] = task[p]
                /\ arcs'[p] = arcs[p]]_vars
    /\ []((lpc = "returned" /\ loadResult \in ChildErrors) =>
            /\ Len(loaded) = Cardinality({i \in 1..(cursor - 1) : walk[i] = "exe"})
            /\ \A p \in Stored :
                  dpc[p] = "alive" /\ child[p] = "running" /\ task[p] = "polling")

\* C37 witness: the pass stored a wrapper and was then aborted by a child that
\* could not be spawned; the stored wrapper's child is running.
C37_Witness ==
    /\ lpc = "returned"
    /\ loadResult = "spawn_fail"
    /\ Len(loaded) >= 1
    /\ \A p \in Stored : dpc[p] = "alive" /\ child[p] = "running"

\* The errors of load_processes that come from its directory.
DirErrors == {"NoPath", "RelativePath", "NonExistent", "NonDirectory"}

\* C38: after a Core::run whose load failed on the directory the observer
\* has had one on_plugin_load_failure call, made after Finished; after one
\* whose load failed on a child it has had two, both with the text of that
\* error, one before Finished and one after it.
C38_FailureCallCount ==
    (runpc = "returned" /\ prepResult = "Ok") =>
        /\ \A i \in FailureCalls : events[i] = FailureEvent(loadResult)
        /\ loadResult = "Ok" => FailureCalls = {}
        /\ loadResult \in DirErrors =>
              /\ Cardinality(FailureCalls) = 1
              /\ \A i \in FailureCalls : \A f \in At("Finished") : f < i
        /\ loadResult \in ChildErrors =>
              /\ Cardinality(FailureCalls) = 2
              /\ \E i, j \in FailureCalls :
                    \A f \in At("Finished") : i < f /\ f < j
              /\ Calls("Finished") = 1

\* C38 witness: a run whose second candidate could not be spawned told the
\* observer twice, around Finished.
C38_Witness ==
    /\ runpc = "returned"
    /\ events = <<"PreInit", "Started", "Loaded", "LoadFailure:spawn_fail",
                  "Finished", "LoadFailure:spawn_fail", "PostInit">>

\* The wrappers whose endpoint server is alive.
LiveEndpoints == {p \in Plugins : arcs[p] # {}}

\* C39: endpoint servers that are alive together have different names, and
\* an endpoint comes to life only under a name that was not in use: a
\* bring-up that minted the name of a live endpoint has failed at the bind,
\* with no child and no wrapper for it.
C39_LiveEndpointsDistinctNames ==
    /\ [](\A p, q \in LiveEndpoints : p # q => socket_name[p] # socket_name[q])
    /\ [][\A p \in Plugins :
            (arcs[p] = {} /\ arcs'[p] # {}) =>
                /\ ~NameInUse(socket_name'[p])
                /\ \A q \in LiveEndpoints : socket_name'[p] # socket_name[q]]_vars
    /\ [](\A p \in Plugins : dpc[p] = "alive" => p \in LiveEndpoints)

\* C39 witness: a wrapper is stored, a bring-up after it has failed at the
\* bind, and the next one has bound an endpoint under the other name: two
\* endpoints are alive, each with a name of its own.
C39_Witness ==
    /\ Len(loaded) = 1
    /\ lpc = "lp_bound"
    /\ loadResult = "bind_fail"
    /\ LiveEndpoints = Plugins
    /\ socket_name["A"] = "n2"
    /\ socket_name["B"] = "n1"

\* C40 as stated: a Core is made only of a directory that is there, its
\* construction fails with NonExistent otherwise, and when Core::run is at
\* prepare_dir the directory is there and prepare_dir changes nothing.
C40_PrepareDirCreatesNothing ==
    /\ [][(lpc = "unbuilt" /\ lpc' = "idle") => dir'[1].isdir]_vars
    /\ [](lpc = "failed" => loadResult = "NonExistent")
    /\ [](runpc = "prepare" => dir[1].isdir)
    /\ [][(runpc = "prepare" /\ runpc' # "prepare") => dir' = dir]_vars

\* C40, amended: a Core is made only of an absolute path that is a directory
\* when it is made, and its construction fails with RelativePath,
\* NonExistent or NonDirectory otherwise; when Core::run is at prepare_dir
\* and the directory is still there prepare_dir succeeds and creates
\* nothing, and what prepare_dir creates is a directory that was missing.
C40_DirThereWhenCoreMade ==
    /\ [][(lpc = "unbuilt" /\ lpc' = "idle") =>
            (dir'[1].abs /\ dir'[1].isdir)]_vars
    /\ [](lpc = "failed" => loadResult \in {"RelativePath", "NonExistent", "NonDirectory"})
    /\ [][(runpc = "prepare" /\ runpc' # "prepare" /\ dir[1].isdir) =>
            (dir' = dir /\ prepResult' = "Ok")]_vars
    /\ [][(runpc = "prepare" /\ runpc' # "prepare" /\ dir' # dir) =>
            (~dir[1].exists /\ dir'[1].isdir /\ prepResult' = "Ok")]_vars

\* C40 witness: the directory was removed after the Core was made; run
\* reached prepare_dir without it, and create_dir_all could not make it.
C40_Witness ==
    /\ runpc = "returned"
    /\ runResult = "IoError"
    /\ lpc = "idle"
    /\ ~dir[1].exists
====
